---------------------------- MODULE Spec2Model ----------------------------
(* A model of nova's network manager (nova/network/manager.py): the subnet *)
(* carver and network creation, the fixed-IP allocate / deallocate / lease  *)
(* / release state machine, MAC (virtual interface) allocation and the      *)
(* host routing of RPCAllocateFixedIP.                                      *)
(*                                                                          *)
(* Addresses are integers of AddrBits bits (IPv4 has 32); an IPNetwork is   *)
(* the record [first, prefixlen] of an aligned block, as netaddr keeps it.  *)
EXTENDS Integers, Sequences, FiniteSets, TLC

VARIABLES
    topology,          \* which manager class runs: "Flat", "FlatDHCP", "Vlan"
    cnt_vpn_clients,   \* CONF.cnt_vpn_clients
    networks,          \* the networks table, in id order
    fixed_ips,         \* the fixed_ips table, in id order
    last,              \* the last create_networks call: arguments and outcome
    virtual_interfaces,\* the virtual_interfaces table, in id order
    vif_seq,           \* the last id the virtual_interfaces table gave out
    pc,                \* per instance: where its request handler stands
    call,              \* per instance: the arguments and locals of its handler
    effects,           \* per instance: the notifications and device calls made for it
    dns,               \* the A records of the instance DNS manager
    zone_ok,           \* what _validate_instance_zone_for_dns_domain answers
    dns_config,        \* instance_dns_domain, the instances' zone, the dnsdomains table
    touched,           \* per instance: another actor wrote its row during its calls
    deleted,           \* per instance: its instances row is marked deleted
    self_host,         \* CONF.host of the manager that handles the batch
    batch,             \* the networks of the instance: id, host, multi_host
    op,                \* the batch handler that runs: "allocate" or "setup"
    caller_host,       \* the host argument the caller supplied
    loop_host,         \* the local variable host of the handler's loop
    idx,               \* the position of the loop in the batch
    routed,            \* per network of the batch: the host its branch was sent to
    result,            \* per network of the batch: how its branch ended
    pending,           \* the green pool: the forwarded branches still running
    rpc_pc,            \* where the batch handler stands
    dealloc,           \* the last RPCAllocateFixedIP.deallocate_fixed_ip call
    bridge,            \* the DHCP bridge: its last callback and how it ended
    age,               \* per address: the ticks since its row's updated_at
    locks,             \* per named lock of a process or host: the request that holds it
    CONF               \* the configuration options the handlers read

carveVars == <<topology, cnt_vpn_clients, networks, fixed_ips, last>>

allocVars == <<virtual_interfaces, vif_seq, pc, call, effects, dns, zone_ok,
               dns_config, touched, deleted>>

routeVars == <<self_host, batch, op, caller_host, loop_host, idx, routed, result,
               pending, rpc_pc, dealloc, bridge, age, locks, CONF>>

vars == <<topology, cnt_vpn_clients, networks, fixed_ips, last,
          virtual_interfaces, vif_seq, pc, call, effects, dns, zone_ok,
          dns_config, touched, deleted, self_host, batch, op, caller_host, loop_host, idx, routed,
          result, pending, rpc_pc, dealloc, bridge, age, locks, CONF>>

-----------------------------------------------------------------------------
(* Bounds of the model. *)

\* width of an address in bits (32 in IPv4)
AddrBits == 4

\* create_networks is called while the networks table holds at most this many rows
MaxNetworks == 2

\* largest num_networks argument tried
MaxNumNetworks == 2

\* largest CONF.cnt_vpn_clients tried
MaxVpnClients == 1

\* number of instances that ask for addresses
NumInstances == 2

\* number of distinct MAC addresses generate_mac_address can draw
NumMacs == 2

\* CONF.create_unique_mac_address_attempts as configured in the model
create_unique_mac_address_attempts == 2

\* the virtual_interfaces table gives out at most this many ids
MaxVifId == 3

\* the networks table of SpecLifecycle gives out at most this many ids (a
\* call in flight when another one inserts may take one or two more)
MaxNetworkId == 3

\* allocate_for_instance is called at most this many times in a run of Spec
MaxAllocations == 2

\* number of networks of the batch an instance is attached to
BatchLen == 2

(* Program constants. *)

\* CONF.vlan_start
vlan_start == 100

\* CONF.vpn_start
vpn_start == 1000

\* the largest sum num_networks + vlan_start that VlanManager accepts
MaxVlanSum == 4094

\* "no address" / "no integer" (Python's None where an integer is expected)
NoAddr == 0 - 1

\* no DHCP callback was made yet
NoBridge == [name |-> "none", address |-> NoAddr, raised |-> FALSE, warned |-> FALSE,
             late |-> 0]

Topologies == {"Flat", "FlatDHCP", "Vlan"}

-----------------------------------------------------------------------------
(* netaddr: blocks of addresses. *)

RECURSIVE Pow2(_)
Pow2(n) == IF n <= 0 THEN 1 ELSE 2 * Pow2(n - 1)

MaxInt == Pow2(AddrBits) - 1

IPNetwork(first, prefixlen) == [first |-> first, prefixlen |-> prefixlen]

NetSize(n) == Pow2(AddrBits - n.prefixlen)

NetLast(n) == n.first + NetSize(n) - 1

\* netaddr's "other in self" for two networks: other lies inside self (or equals it)
NetContains(self, other) == other.first >= self.first /\ NetLast(other) <= NetLast(self)

\* two blocks share an address
Overlap(a, b) == a.first <= NetLast(b) /\ b.first <= NetLast(a)

\* every aligned block of the address space
AllBlocks ==
    UNION { { IPNetwork(k * Pow2(AddrBits - p), p) : k \in 0 .. (Pow2(p) - 1) } : p \in 0 .. AddrBits }

\* int(math.ceil(math.log(network_size, 2)))
RECURSIVE CeilLog2From(_, _)
CeilLog2From(n, b) == IF Pow2(b) >= n THEN b ELSE CeilLog2From(n, b + 1)

\* a plausible slip: floor instead of ceil
RECURSIVE FloorLog2From(_, _)
FloorLog2From(n, b) == IF Pow2(b + 1) > n THEN b ELSE FloorLog2From(n, b + 1)

subnet_bits_floor(network_size) == FloorLog2From(network_size, 0)

subnet_bits(network_size) == CeilLog2From(network_size, 0)

\* IPNetwork.subnet(prefixlen, count) as a list: the first count subnets of that
\* prefix length; an error when the prefix is out of range or count exceeds the
\* number of subnets, and the empty list when the prefix is shorter than the block's
RECURSIVE SubnetList(_, _, _, _)
SubnetList(base, prefixlen, count, k) ==
    IF k >= count THEN <<>>
    ELSE <<IPNetwork(base.first + k * Pow2(AddrBits - prefixlen), prefixlen)>>
             \o SubnetList(base, prefixlen, count, k + 1)

IPSubnet(base, prefixlen, count) ==
    IF prefixlen < 0 \/ prefixlen > AddrBits
    THEN [ok |-> FALSE, err |-> "AddrFormatError", subnets |-> <<>>]
    ELSE IF prefixlen < base.prefixlen
    THEN [ok |-> TRUE, err |-> "", subnets |-> <<>>]
    ELSE IF count < 1 \/ count > Pow2(prefixlen - base.prefixlen)
    THEN [ok |-> FALSE, err |-> "AddrFormatError", subnets |-> <<>>]
    ELSE [ok |-> TRUE, err |-> "", subnets |-> SubnetList(base, prefixlen, count, 0)]

\* IPNetwork.next(): the adjacent block of the same size; IndexError past the
\* end of the address space
HasNext(n) == n.first + 2 * NetSize(n) - 1 <= MaxInt

NextNet(n) == IPNetwork(n.first + NetSize(n), n.prefixlen)

\* x in list (Python list membership, by equality)
InList(x, list) == \E i \in 1 .. Len(list) : list[i] = x

\* list.remove(x): drops the first element equal to x
RECURSIVE ListRemove(_, _)
ListRemove(list, x) ==
    IF list = <<>> THEN <<>>
    ELSE IF Head(list) = x THEN Tail(list)
    ELSE <<Head(list)>> \o ListRemove(Tail(list), x)


-----------------------------------------------------------------------------
(* The subnet carver of _do_create_networks. *)

NoNet == IPNetwork(NoAddr, NoAddr)

TryNext(n) ==
    IF HasNext(n) THEN [kind |-> "net", net |-> NextNet(n)]
    ELSE [kind |-> "IndexError", net |-> n]

\* while next_subnet in subnets_v4: next_subnet = next_subnet.next()
RECURSIVE find_next_skip(_, _)
find_next_skip(next_subnet, subnets_v4) ==
    IF next_subnet.kind # "net" THEN next_subnet
    ELSE IF InList(next_subnet.net, subnets_v4)
    THEN find_next_skip(TryNext(next_subnet.net), subnets_v4)
    ELSE next_subnet

\* a plausible slip: the next subnet is taken without skipping the ones
\* already in the list
find_next_noskip(subnet, subnets_v4, fixed_net_v4) ==
    LET r == TryNext(subnet)
    IN  IF r.kind # "net" THEN r
        ELSE IF NetContains(fixed_net_v4, r.net) THEN r
        ELSE [kind |-> "None", net |-> subnet]

\* find_next: the next subnet not in subnets_v4, if it lies in the base block;
\* None otherwise; IndexError when next() runs off the address space
find_next(subnet, subnets_v4, fixed_net_v4) ==
    LET r == find_next_skip(TryNext(subnet), subnets_v4)
    IN  IF r.kind # "net" THEN r
        ELSE IF NetContains(fixed_net_v4, r.net) THEN r
        ELSE [kind |-> "None", net |-> subnet]

CarveOk(subnets) == [ok |-> TRUE, err |-> "", subnets |-> subnets]

CarveErr(e) == [ok |-> FALSE, err |-> e, subnets |-> <<>>]

\* for used_subnet in used_subnets[j..]: the supernet / smaller-cidr checks
RECURSIVE used_loop(_, _, _, _, _)
used_loop(subnet, subnets_v4, used_subnets, j, fixed_net_v4) ==
    IF j > Len(used_subnets) THEN CarveOk(subnets_v4)
    ELSE IF NetContains(used_subnets[j], subnet)
    THEN CarveErr("conflicts with existing supernet")
    ELSE IF NetContains(subnet, used_subnets[j])
    THEN LET nxt == find_next(subnet, subnets_v4, fixed_net_v4)
         IN  IF nxt.kind = "IndexError" THEN CarveErr("IndexError")
             ELSE IF nxt.kind = "None" THEN CarveErr("conflicts with existing smaller cidr")
             ELSE used_loop(nxt.net, Append(ListRemove(subnets_v4, subnet), nxt.net),
                            used_subnets, j + 1, fixed_net_v4)
    ELSE used_loop(subnet, subnets_v4, used_subnets, j + 1, fixed_net_v4)

\* for subnet in list(subnets_v4): orig is the copy that is iterated
RECURSIVE carve_loop(_, _, _, _, _)
carve_loop(orig, i, subnets_v4, used_subnets, fixed_net_v4) ==
    IF i > Len(orig) THEN CarveOk(subnets_v4)
    ELSE LET subnet == orig[i]
             nxt == find_next(subnet, subnets_v4, fixed_net_v4)
             inUsed == InList(subnet, used_subnets)
             sub1 == IF inUsed THEN nxt.net ELSE subnet
             list1 == IF inUsed THEN Append(ListRemove(subnets_v4, subnet), nxt.net)
                      ELSE subnets_v4
         IN  IF inUsed /\ nxt.kind = "IndexError" THEN CarveErr("IndexError")
             ELSE IF inUsed /\ nxt.kind = "None" THEN CarveErr("cidr already in use")
             ELSE LET r == used_loop(sub1, list1, used_subnets, 1, fixed_net_v4)
                  IN  IF ~r.ok THEN r
                      ELSE carve_loop(orig, i + 1, r.subnets, used_subnets, fixed_net_v4)

\* the v4 carving of _do_create_networks: the candidate subnets, then the
\* collision avoidance against the networks of the table
carve(cidr, network_size, num_networks, used_subnets) ==
    LET prefixlen_v4 == AddrBits - subnet_bits(network_size)
        cand == IPSubnet(cidr, prefixlen_v4, num_networks)
    IN  IF ~cand.ok THEN CarveErr(cand.err)
        ELSE carve_loop(cand.subnets, 1, cand.subnets, used_subnets, cidr)

-----------------------------------------------------------------------------
(* Network creation: _do_create_networks and _create_fixed_ips. *)

\* a plausible slip: the gateway is not counted
bottom_reserved_ips_short(topo) == IF topo = "Vlan" THEN 2 ELSE 1

\* NetworkManager._bottom_reserved_ips (network, gateway) and the VlanManager
\* override (one more, the vpn server)
bottom_reserved_ips(topo) == IF topo = "Vlan" THEN 2 + 1 ELSE 2

\* NetworkManager._top_reserved_ips (broadcast) and the VlanManager override
top_reserved_ips(topo, cnt) == IF topo = "Vlan" THEN 1 + cnt ELSE 1

\* a row of the fixed_ips table as fixed_ip_bulk_create inserts it
FixedIpRow(network_id, address, reserved) ==
    [network_id |-> network_id, address |-> address, reserved |-> reserved,
     instance_uuid |-> 0, allocated |-> FALSE, leased |-> FALSE,
     virtual_interface_id |-> 0, host |-> "none"]

\* a plausible slip: the top test is strict, so the broadcast address alone
\* is never reserved
is_reserved_strict(index, num_ips, bottom_reserved, top_reserved) ==
    index < bottom_reserved \/ num_ips - index < top_reserved

\* the reserved flag of the row at position index of num_ips
is_reserved(index, num_ips, bottom_reserved, top_reserved) ==
    index < bottom_reserved \/ num_ips - index <= top_reserved

\* _create_fixed_ips: one row per address of fixed_cidr, or of the network's
\* cidr when fixed_cidr is not given
create_fixed_ips(topo, cnt, network_id, network_cidr, fixed_cidr) ==
    LET bottom_reserved == bottom_reserved_ips(topo)
        top_reserved == top_reserved_ips(topo, cnt)
        block == IF fixed_cidr = NoNet THEN network_cidr ELSE fixed_cidr
        num_ips == NetSize(block)
    IN  [ k \in 1 .. num_ips |->
            FixedIpRow(network_id, block.first + (k - 1),
                       is_reserved(k - 1, num_ips, bottom_reserved, top_reserved)) ]

\* db.network_create_safe: nothing is created when a row with that cidr exists
network_create_safe_ok(nets, net) == \A i \in 1 .. Len(nets) : nets[i].cidr # net.cidr

\* a plausible slip: the answer of network_create_safe is not looked at
not_network_ignored(created) == FALSE

\* if not network: raise ValueError(_('Network already exists!'))
not_network(created) == ~created

\* the id the table gives the next network row: past every id in use
next_network_id(nets) ==
    IF nets = <<>> THEN 1
    ELSE 1 + (CHOOSE m \in { nets[i].id : i \in 1 .. Len(nets) } :
                  \A i \in 1 .. Len(nets) : nets[i].id <= m)

\* kwargs.get("vlan_start") or CONF.vlan_start: an argument that is absent
\* or 0 gives the configured value
vlan_start_of(a) ==
    IF "vlan_start" \in DOMAIN a /\ a.vlan_start # 0 THEN a.vlan_start ELSE vlan_start

\* kwargs.get("vpn_start") or CONF.vpn_start
vpn_start_of(a) ==
    IF "vpn_start" \in DOMAIN a /\ a.vpn_start # 0 THEN a.vpn_start ELSE vpn_start

\* '%s' % n for a natural number: its decimal digits
RECURSIVE str_int(_)
str_int(n) == IF n < 10 THEN <<n>> ELSE Append(str_int(n \div 10), n % 10)

\* 'br%s' % vlan
bridge_name(vlan) == <<"b", "r">> \o str_int(vlan)

\* kwargs.get('project_id') of _do_create_networks
project_id_of(a) == IF "project_id" \in DOMAIN a THEN a.project_id ELSE "none"

\* the loop over enumerate(subnets) of _do_create_networks; index counts from 0.
\* str(subnet_v4[2]) raises IndexError on a block of fewer than 3 addresses, and
\* the VLAN branch's subnet_v4[3] on fewer than 4
RECURSIVE create_loop(_, _, _, _, _, _)
create_loop(a, subnets_v4, index, nets, fips, created) ==
    IF index >= Len(subnets_v4)
    THEN [networks |-> nets, fixed_ips |-> fips, err |-> "", created |-> created]
    ELSE LET subnet_v4 == subnets_v4[index + 1]
             vlan == vlan_start_of(a) + index
             net == [id |-> next_network_id(nets),
                     cidr |-> subnet_v4,
                     gateway |-> subnet_v4.first + 1,
                     broadcast |-> NetLast(subnet_v4),
                     dhcp_start |-> IF a.vpn THEN subnet_v4.first + 3 ELSE subnet_v4.first + 2,
                     vpn_private_address |-> IF a.vpn THEN subnet_v4.first + 2 ELSE NoAddr,
                     vlan |-> IF a.vpn THEN vlan ELSE NoAddr,
                     bridge |-> IF a.vpn THEN bridge_name(vlan) ELSE <<>>,
                     vpn_public_port |-> IF a.vpn THEN vpn_start_of(a) + index ELSE NoAddr,
                     multi_host |-> a.multi_host,
                     project_id |-> project_id_of(a),
                     host |-> "none"]
         IN  IF NetSize(subnet_v4) < 3 \/ (a.vpn /\ NetSize(subnet_v4) < 4)
             THEN [networks |-> nets, fixed_ips |-> fips, err |-> "IndexError",
                   created |-> created]
             ELSE IF not_network(network_create_safe_ok(nets, net))
             THEN [networks |-> nets, fixed_ips |-> fips, err |-> "Network already exists!",
                   created |-> created]
             ELSE create_loop(a, subnets_v4, index + 1, Append(nets, net),
                              fips \o create_fixed_ips(a.topo, a.cnt, net.id, net.cidr,
                                                       a.fixed_cidr),
                              Append(created, net.id))

UsedSubnets(nets) == [ i \in 1 .. Len(nets) |-> nets[i].cidr ]

\* _do_create_networks (the v4 side, without the ipam shortcut): carve, then
\* build and persist one network per subnet with its fixed ips
do_create_networks(a, nets, fips) ==
    LET carved == carve(a.cidr, a.network_size, a.num_networks, UsedSubnets(nets))
        done == create_loop(a, carved.subnets, 0, nets, fips, <<>>)
    IN  IF ~carved.ok
        THEN [networks |-> nets, fixed_ips |-> fips, err |-> carved.err,
              created |-> <<>>, carved |-> carved]
        ELSE [networks |-> done.networks, fixed_ips |-> done.fixed_ips, err |-> done.err,
              created |-> done.created, carved |-> carved]

\* a plausible slip: the VLAN range is not checked
vlan_create_check_no_sum(a) ==
    IF NetSize(a.cidr) < a.num_networks * a.network_size THEN "range not big enough"
    ELSE ""

\* VlanManager.create_networks: the VLAN range and block size checks before
\* NetworkManager.create_networks runs with vpn=True
vlan_create_check(a) ==
    IF a.num_networks + vlan_start_of(a) > MaxVlanSum THEN "vlan sum too large"
    ELSE IF NetSize(a.cidr) < a.num_networks * a.network_size THEN "range not big enough"
    ELSE ""

\* create_networks with cidr, num_networks and network_size given
create_networks(a, nets, fips) ==
    LET chk == IF a.topo = "Vlan" THEN vlan_create_check(a) ELSE ""
    IN  IF chk # ""
        THEN [networks |-> nets, fixed_ips |-> fips, err |-> chk,
              created |-> <<>>, carved |-> CarveErr("not run")]
        ELSE do_create_networks(a, nets, fips)

\* db.network_delete_safe: the network row and its fixed ips go
network_delete_safe(nets, fips, network_id) ==
    [networks |-> SelectSeq(nets, LAMBDA n : n.id # network_id),
     fixed_ips |-> SelectSeq(fips, LAMBDA f : f.network_id # network_id),
     err |-> ""]

\* a plausible slip: the project association is not looked at
delete_network_unguarded(nets, fips, network, require_disassociated) ==
    network_delete_safe(nets, fips, network.id)

\* delete_network for a network row found by uuid or cidr
delete_network(nets, fips, network, require_disassociated) ==
    IF require_disassociated /\ network.project_id # "none"
    THEN [networks |-> nets, fixed_ips |-> fips,
          err |-> "Network must be disassociated from project before delete"]
    ELSE network_delete_safe(nets, fips, network.id)

-----------------------------------------------------------------------------
(* The specification of network creation. *)

NoCall ==
    [called |-> FALSE, cidr |-> NoNet, network_size |-> 0, num_networks |-> 0,
     fixed_cidr |-> NoNet, used |-> <<>>, err |-> "", created |-> <<>>,
     carved |-> CarveErr("not run")]

\* the fixed_cidr arguments tried: none, or the lowest quarter of the address space
FixedCidrs == {NoNet, IPNetwork(0, 2)}

\* the cidr arguments tried: the aligned blocks of at least 4 addresses (a
\* smaller block holds no network: see the IndexError of create_loop)
BaseCidrs == { b \in AllBlocks : NetSize(b) >= 4 }

\* the network_size arguments tried
NetworkSizes == 1 .. Pow2(AddrBits)

Instances == 1 .. NumInstances

NoCallArgs == [network_id |-> 0, address |-> NoAddr, vpn |-> FALSE, got |-> NoAddr,
               err |-> "", attempts |-> 0, fresh |-> FALSE]

\* the names the dnsdomains table is asked for: the instance DNS domain and
\* the availability zone of the instances
DnsNames == {"example.org", "az1"}

\* no instance_dns_domain is configured
NoDnsDomain ==
    [instance_dns_domain |-> "", availability_zone |-> "az1",
     dnsdomains |-> [d \in DnsNames |-> "missing"]]

\* db.dnsdomain_get: the availability_zone of the row of that domain ("" for
\* a row without one), "missing" when there is no row
dnsdomain_get(dnsdomains, fqdomain) == dnsdomains[fqdomain]

\* _validate_instance_zone_for_dns_domain: the row is looked up under the
\* name of the instance's availability zone; "error" when the lookup finds
\* no row and domainref.availability_zone fails
validate_instance_zone_for_dns_domain(conf) ==
    LET instance_zone == conf.availability_zone
        dns_zone == dnsdomain_get(conf.dnsdomains, instance_zone)
    IN  IF conf.instance_dns_domain = "" THEN "valid"
        ELSE IF dns_zone = "missing" THEN "error"
        ELSE IF dns_zone # "" /\ dns_zone # instance_zone THEN "mismatch"
        ELSE "valid"

\* no request is in flight and nothing was allocated yet
IdleAlloc ==
    /\ virtual_interfaces = <<>>
    /\ vif_seq = 0
    /\ pc = [i \in Instances |-> "idle"]
    /\ call = [i \in Instances |-> NoCallArgs]
    /\ effects = [i \in Instances |-> {}]
    /\ dns = {}
    /\ zone_ok = TRUE
    /\ dns_config = NoDnsDomain
    /\ touched = [i \in Instances |-> FALSE]
    /\ deleted = [i \in Instances |-> FALSE]

NoDealloc == [called |-> FALSE, network |-> [host |-> "none", multi_host |-> FALSE],
              caller |-> "none", host |-> "none", local |-> FALSE, teardown |-> FALSE]

\* no batch is handled and there are no networks to route to
IdleRoute ==
    /\ self_host = "none"
    /\ batch = <<>>
    /\ op = "none"
    /\ caller_host = "none"
    /\ loop_host = "none"
    /\ idx = 0
    /\ routed = <<>>
    /\ result = <<>>
    /\ pending = {}
    /\ rpc_pc = "idle"
    /\ dealloc = NoDealloc
    /\ bridge = NoBridge
    /\ age = <<>>
    /\ locks = <<>>
    /\ CONF = <<>>

InitCarve ==
    /\ topology \in Topologies
    /\ cnt_vpn_clients \in 0 .. MaxVpnClients
    /\ (topology # "Vlan" => cnt_vpn_clients = 0)
    /\ networks = <<>>
    /\ fixed_ips = <<>>
    /\ last = NoCall
    /\ IdleAlloc
    /\ IdleRoute

CreateNetworks(cidr, network_size, num_networks, fixed_cidr) ==
    LET a == [cidr |-> cidr, network_size |-> network_size,
              num_networks |-> num_networks, fixed_cidr |-> fixed_cidr,
              multi_host |-> FALSE, vpn |-> (topology = "Vlan"),
              topo |-> topology, cnt |-> cnt_vpn_clients]
        r == create_networks(a, networks, fixed_ips)
    IN  /\ ~last.called
        /\ Len(networks) <= MaxNetworks
        /\ networks' = r.networks
        /\ fixed_ips' = r.fixed_ips
        /\ last' = [called |-> TRUE, cidr |-> cidr, network_size |-> network_size,
                    num_networks |-> num_networks, fixed_cidr |-> fixed_cidr,
                    used |-> UsedSubnets(networks), err |-> r.err,
                    created |-> r.created, carved |-> r.carved]
        /\ UNCHANGED <<topology, cnt_vpn_clients>>
        /\ UNCHANGED <<allocVars, routeVars>>

\* the caller of create_networks takes the result (or the error)
ReturnCreate ==
    /\ last.called
    /\ last' = NoCall
    /\ UNCHANGED <<topology, cnt_vpn_clients, networks, fixed_ips>>
    /\ UNCHANGED <<allocVars, routeVars>>

NextCarve ==
    \/ \E cidr \in BaseCidrs, network_size \in NetworkSizes,
          num_networks \in 1 .. MaxNumNetworks, fixed_cidr \in FixedCidrs :
           CreateNetworks(cidr, network_size, num_networks, fixed_cidr)
    \/ ReturnCreate

SpecCarve == InitCarve /\ [][NextCarve]_vars

-----------------------------------------------------------------------------
(* Properties of network creation. *)

\* the prefix length a subnet of at least network_size addresses needs:
\* 32 - ceil(log2(network_size)), with AddrBits for 32
ExpectedPrefix(network_size) ==
    CHOOSE p \in 0 .. AddrBits :
        /\ Pow2(AddrBits - p) >= network_size
        /\ (p = AddrBits \/ Pow2(AddrBits - (p + 1)) < network_size)

\* the base block holds num_networks subnets of that prefix length
LargeEnough(cidr, network_size, num_networks) ==
    /\ cidr.prefixlen <= ExpectedPrefix(network_size)
    /\ num_networks <= Pow2(ExpectedPrefix(network_size) - cidr.prefixlen)

\* C2: whenever the carving of _do_create_networks succeeds, no carved v4
\* subnet equals, contains or lies inside the cidr of a network that was in
\* the table when the call was made.
C2_NoCollisionWithExisting ==
    (last.called /\ last.carved.ok) =>
        \A i \in 1 .. Len(last.carved.subnets), j \in 1 .. Len(last.used) :
            ~Overlap(last.carved.subnets[i], last.used[j])

RowsOf(network_id) == { k \in 1 .. Len(fixed_ips) : fixed_ips[k].network_id = network_id }

NetworkById(network_id) == networks[CHOOSE i \in 1 .. Len(networks) : networks[i].id = network_id]

Min(a, b) == IF a <= b THEN a ELSE b

ExpectedBottom == IF topology = "Vlan" THEN 3 ELSE 2

ExpectedTop == IF topology = "Vlan" THEN 1 + cnt_vpn_clients ELSE 1

-----------------------------------------------------------------------------
(* The persistence operations the manager calls (nova.db). *)

Macs == 1 .. NumMacs

\* rows k of the table that satisfy a filter, lowest id first
FirstOf(ks) == CHOOSE k \in ks : \A j \in ks : k <= j

DbOk(fips, address) == [ok |-> TRUE, err |-> "", address |-> address, fixed_ips |-> fips]

DbErr(fips, e) == [ok |-> FALSE, err |-> e, address |-> NoAddr, fixed_ips |-> fips]

\* db.fixed_ip_get_by_address: the index of the row of an address
RowOf(fips, address) == FirstOf({ k \in 1 .. Len(fips) : fips[k].address = address })

\* db.fixed_ip_update: writes the given fields of the row of an address
fixed_ip_update(fips, address, values) ==
    [fips EXCEPT ![RowOf(fips, address)] =
        [f \in DOMAIN @ |-> IF f \in DOMAIN values THEN values[f] ELSE @[f]]]

\* db.fixed_ip_associate: one conditional update; an address that some instance
\* holds is in use
fixed_ip_associate(fips, address, instance_uuid, network_id, reserved) ==
    LET ks == { k \in 1 .. Len(fips) : /\ fips[k].network_id = network_id
                                        /\ fips[k].reserved = reserved
                                        /\ fips[k].address = address }
    IN  IF ks = {} THEN DbErr(fips, "FixedIpNotFoundForNetwork")
        ELSE IF fips[FirstOf(ks)].instance_uuid # 0 THEN DbErr(fips, "FixedIpAlreadyInUse")
        ELSE DbOk([fips EXCEPT ![FirstOf(ks)].instance_uuid = instance_uuid], address)

\* db.fixed_ip_associate_pool: one conditional update that claims the first row
\* of the network that is unreserved and held by no instance and no host
fixed_ip_associate_pool(fips, network_id, instance_uuid) ==
    LET ks == { k \in 1 .. Len(fips) : /\ fips[k].network_id = network_id
                                        /\ ~fips[k].reserved
                                        /\ fips[k].instance_uuid = 0
                                        /\ fips[k].host = "none" }
    IN  IF ks = {} THEN DbErr(fips, "NoMoreFixedIps")
        ELSE DbOk([fips EXCEPT ![FirstOf(ks)].instance_uuid = instance_uuid],
                  fips[FirstOf(ks)].address)

\* db.fixed_ip_disassociate
fixed_ip_disassociate(fips, address) == fixed_ip_update(fips, address, [instance_uuid |-> 0])

\* db.virtual_interface_create fails on a MAC address that a row already has
virtual_interface_create_ok(vifs, mac) == \A k \in 1 .. Len(vifs) : vifs[k].address # mac

\* db.virtual_interface_delete_by_instance
virtual_interface_delete_by_instance(vifs, instance_uuid) ==
    SelectSeq(vifs, LAMBDA v : v.instance_uuid # instance_uuid)

\* db.virtual_interface_get_by_instance_and_network: the id of the first row of
\* the pair, 0 when there is none
virtual_interface_get_by_instance_and_network(vifs, instance_uuid, network_id) ==
    LET ks == { k \in 1 .. Len(vifs) : /\ vifs[k].instance_uuid = instance_uuid
                                        /\ vifs[k].network_id = network_id }
    IN  IF ks = {} THEN 0 ELSE vifs[FirstOf(ks)].id

-----------------------------------------------------------------------------
(* MAC allocation and the fixed-IP handlers of the manager. *)

\* add_virtual_interface: macs[k] is the address the k-th attempt tries; after
\* create_unique_mac_address_attempts failures every row of the instance is
\* deleted and VirtualInterfaceMacAddressException raised
RECURSIVE add_virtual_interface_from(_, _, _, _, _, _)
add_virtual_interface_from(vifs, seq, instance_uuid, network_id, macs, k) ==
    IF k > create_unique_mac_address_attempts
    THEN [ok |-> FALSE, attempts |-> k - 1, seq |-> seq,
          vifs |-> virtual_interface_delete_by_instance(vifs, instance_uuid)]
    ELSE IF virtual_interface_create_ok(vifs, macs[k])
    THEN [ok |-> TRUE, attempts |-> k, seq |-> seq + 1,
          vifs |-> Append(vifs, [id |-> seq + 1, address |-> macs[k],
                                 instance_uuid |-> instance_uuid,
                                 network_id |-> network_id])]
    ELSE add_virtual_interface_from(vifs, seq, instance_uuid, network_id, macs, k + 1)

\* a plausible slip: the rows of the instance are left in place on exhaustion
add_virtual_interface_no_rollback(vifs, seq, instance_uuid, network_id, macs) ==
    LET r == add_virtual_interface_from(vifs, seq, instance_uuid, network_id, macs, 1)
    IN  IF r.ok THEN r ELSE [r EXCEPT !.vifs = vifs]

add_virtual_interface(vifs, seq, instance_uuid, network_id, macs) ==
    add_virtual_interface_from(vifs, seq, instance_uuid, network_id, macs, 1)

\* a plausible slip: a requested address is written to the instance without
\* the conditional associate
allocate_associate_unchecked(topo, fips, network, instance_uuid, address, vpn) ==
    IF address # NoAddr /\ \E k \in 1 .. Len(fips) : fips[k].address = address
    THEN DbOk(fixed_ip_update(fips, address, [instance_uuid |-> instance_uuid]), address)
    ELSE fixed_ip_associate_pool(fips, network.id, instance_uuid)

\* a plausible slip: the vpn argument is not looked at
allocate_associate_no_vpn(topo, fips, network, instance_uuid, address, vpn) ==
    IF address # NoAddr
    THEN fixed_ip_associate(fips, address, instance_uuid, network.id, FALSE)
    ELSE fixed_ip_associate_pool(fips, network.id, instance_uuid)

\* the claim of a row in allocate_fixed_ip: the requested address by
\* fixed_ip_associate, else one of the pool; VlanManager associates the
\* network's reserved vpn_private_address when vpn is set
allocate_associate(topo, fips, network, instance_uuid, address, vpn) ==
    IF topo = "Vlan" /\ vpn
    THEN fixed_ip_associate(fips, network.vpn_private_address, instance_uuid,
                            network.id, TRUE)
    ELSE IF address # NoAddr
    THEN fixed_ip_associate(fips, address, instance_uuid, network.id, FALSE)
    ELSE fixed_ip_associate_pool(fips, network.id, instance_uuid)

\* a plausible slip: the rows are claimed whether the network has a cidr or not
has_cidr_always(network) == TRUE

\* NetworkManager.allocate_fixed_ip: if network['cidr']
has_cidr(network) == network.cidr # NoNet

\* the values allocate_fixed_ip writes once the row is claimed
alloc_values(vif_id) == [allocated |-> TRUE, virtual_interface_id |-> vif_id]

\* a plausible slip: the address goes back to the pool at once, whatever the
\* manager
dealloc_values_to_pool ==
    [allocated |-> FALSE, virtual_interface_id |-> 0, leased |-> FALSE, instance_uuid |-> 0]

\* a plausible slip: the VIF link is left in place
dealloc_values_keep_vif == [allocated |-> FALSE]

\* the values deallocate_fixed_ip writes
dealloc_values == [allocated |-> FALSE, virtual_interface_id |-> 0]

\* class attribute DHCP: FlatDHCPManager and VlanManager run a DHCP server
DHCP(topo) == topo # "Flat"

\* a plausible slip: release clears the lease flag only
release_fixed_ip_keep(fips, address) == fixed_ip_update(fips, address, [leased |-> FALSE])

\* the writes of release_fixed_ip: the lease flag is cleared, and an address
\* that was not allocated when the handler read it is disassociated
release_fixed_ip(fips, address) ==
    LET fixed_ip == fips[RowOf(fips, address)]
        cleared == fixed_ip_update(fips, address, [leased |-> FALSE])
    IN  IF ~fixed_ip.allocated THEN fixed_ip_disassociate(cleared, address) ELSE cleared

\* db.instance_get / db.instance_get_by_uuid: a row marked deleted is found
\* only by a context that reads deleted rows
instance_get(is_deleted, read_deleted) == ~is_deleted \/ read_deleted = "yes"

\* a plausible slip: the instance is looked up with the caller's context
dealloc_read_deleted_no == "no"

\* the read_deleted setting of the contexts deallocate_for_instance,
\* deallocate_fixed_ip and the security group refresh look the instance up with
dealloc_read_deleted == "yes"

-----------------------------------------------------------------------------
(* The specification of fixed-IP allocation: every instance runs            *)
(* allocate_for_instance and later deallocate_for_instance on one network,  *)
(* one persistence operation at a time, interleaved with the others and     *)
(* with the DHCP callbacks lease_fixed_ip and release_fixed_ip.             *)

\* the network the instances attach to: the one create_networks made in Init
TheNetwork == networks[1]

\* the arguments of the create_networks call that made it: a block of 8 addresses
InitArgs(topo, cnt) ==
    [cidr |-> IPNetwork(0, AddrBits - 3), network_size |-> Pow2(3),
     num_networks |-> 1, fixed_cidr |-> NoNet, multi_host |-> FALSE,
     vpn |-> (topo = "Vlan"), topo |-> topo, cnt |-> cnt]

\* the DNS configurations of Spec: no instance DNS domain, or a domain and a
\* row with another zone than the instances'
AllocDnsConfigs ==
    {NoDnsDomain,
     [instance_dns_domain |-> "example.org", availability_zone |-> "az1",
      dnsdomains |-> [d \in DnsNames |-> "az2"]]}

Init ==
    /\ topology \in Topologies
    /\ cnt_vpn_clients \in 0 .. MaxVpnClients
    /\ (topology # "Vlan" => cnt_vpn_clients = 0)
    /\ networks = create_networks(InitArgs(topology, cnt_vpn_clients), <<>>, <<>>).networks
    /\ fixed_ips = create_networks(InitArgs(topology, cnt_vpn_clients), <<>>, <<>>).fixed_ips
    /\ last = NoCall
    /\ virtual_interfaces = <<>>
    /\ vif_seq = 0
    /\ pc = [i \in Instances |-> "idle"]
    /\ call = [i \in Instances |-> NoCallArgs]
    /\ effects = [i \in Instances |-> {}]
    /\ dns = {}
    /\ dns_config \in AllocDnsConfigs
    /\ zone_ok = (validate_instance_zone_for_dns_domain(dns_config) = "valid")
    /\ touched = [i \in Instances |-> FALSE]
    /\ deleted = [i \in Instances |-> FALSE]
    /\ IdleRoute

\* the rows of the network as create_networks left them
FreshFixedIps == create_networks(InitArgs(topology, cnt_vpn_clients), <<>>, <<>>).fixed_ips

\* the handler of instance j is between its associate and the end of its deallocate
InPair(j) == pc[j] \in {"update", "setup", "holding", "dealloc_teardown",
                        "dealloc_disassociate", "dealloc_done"}

\* actor (an instance, or 0 for a DHCP callback) writes the row of address a
TouchBy(actor, a) ==
    [j \in Instances |-> touched[j] \/ (j # actor /\ InPair(j) /\ call[j].got = a)]

\* allocate_for_instance, up to _allocate_mac_addresses: one VIF row for the network
AllocateMac(i, address, vpn, macs) ==
    LET r == add_virtual_interface(virtual_interfaces, vif_seq, i, TheNetwork.id, macs)
    IN  /\ pc[i] = "idle"
        /\ vif_seq < MaxAllocations
        /\ (vpn => topology = "Vlan" /\ address = NoAddr)
        /\ virtual_interfaces' = r.vifs
        /\ vif_seq' = r.seq
        /\ call' = [call EXCEPT ![i] =
                      [network_id |-> TheNetwork.id,
                       address |-> address, vpn |-> vpn, got |-> NoAddr,
                       err |-> IF r.ok THEN "" ELSE "VirtualInterfaceMacAddressException",
                       attempts |-> 0, fresh |-> FALSE]]
        /\ pc' = [pc EXCEPT ![i] = IF r.ok THEN "associate" ELSE "failed"]
        /\ UNCHANGED <<fixed_ips, effects, dns, touched>>
        /\ UNCHANGED <<topology, cnt_vpn_clients, networks, last, zone_ok, dns_config, routeVars, deleted>>

\* the network row the call of instance i is for
NetworkOf(i) == networks[call[i].network_id]

\* allocate_fixed_ip: the associate; an error leaves the handler
AllocAssociate(i) ==
    LET r == allocate_associate(topology, fixed_ips, NetworkOf(i), i,
                                call[i].address, call[i].vpn)
    IN  /\ pc[i] = "associate"
        /\ topology = "Vlan" \/ has_cidr(NetworkOf(i))
        /\ fixed_ips' = r.fixed_ips
        /\ call' = [call EXCEPT ![i].got = r.address, ![i].err = r.err,
                                ![i].fresh = (fixed_ips = FreshFixedIps)]
        /\ pc' = [pc EXCEPT ![i] = IF r.ok THEN "update" ELSE "failed"]
        /\ touched' = IF r.ok THEN TouchBy(i, r.address) ELSE touched
        /\ UNCHANGED <<virtual_interfaces, vif_seq, effects, dns>>
        /\ UNCHANGED <<topology, cnt_vpn_clients, networks, last, zone_ok, dns_config, routeVars, deleted>>

\* allocate_fixed_ip: the security group refresh (not in VlanManager's vpn
\* mode), the VIF lookup and the update of the row
AllocUpdate(i) ==
    LET vif_id == virtual_interface_get_by_instance_and_network(
                      virtual_interfaces, i, NetworkOf(i).id)
    IN  /\ pc[i] = "update"
        /\ effects' = [effects EXCEPT ![i] =
                         IF topology = "Vlan" /\ call[i].vpn THEN @
                         ELSE @ \cup {"sg_add"}]
        /\ fixed_ips' = fixed_ip_update(fixed_ips, call[i].got, alloc_values(vif_id))
        /\ touched' = TouchBy(i, call[i].got)
        /\ pc' = [pc EXCEPT ![i] = "setup"]
        /\ UNCHANGED <<virtual_interfaces, vif_seq, call, dns>>
        /\ UNCHANGED <<topology, cnt_vpn_clients, networks, last, zone_ok, dns_config, routeVars, deleted>>

\* allocate_fixed_ip: the two DNS records when the zone allows them, then
\* _setup_network_on_host; the address is returned
AllocSetup(i) ==
    LET valid == validate_instance_zone_for_dns_domain(dns_config)
    IN  /\ pc[i] = "setup"
        /\ IF valid = "error"
           THEN /\ pc' = [pc EXCEPT ![i] = "failed"]
                /\ call' = [call EXCEPT ![i].err = "AttributeError"]
                /\ UNCHANGED <<dns, effects>>
           ELSE /\ dns' = IF valid = "valid"
                         THEN dns \cup {<<"display_name", i, call[i].got>>,
                                        <<"uuid", i, call[i].got>>}
                         ELSE dns
                /\ effects' = [effects EXCEPT ![i] = @ \cup {"setup"}]
                /\ pc' = [pc EXCEPT ![i] = "holding"]
                /\ UNCHANGED call
    /\ UNCHANGED <<virtual_interfaces, vif_seq, fixed_ips, touched>>
    /\ UNCHANGED <<topology, cnt_vpn_clients, networks, last, zone_ok, dns_config, routeVars, deleted>>

\* deallocate_fixed_ip: the row and the instance are read, the security group
\* refresh sent, the DNS records of the address removed and the row updated
DeallocUpdate(i) ==
    /\ pc[i] = "holding"
    /\ call[i].got # NoAddr
    /\ IF instance_get(deleted[i], dealloc_read_deleted)
       THEN /\ effects' = [effects EXCEPT ![i] = @ \cup {"sg_remove"}]
            /\ dns' = IF zone_ok THEN { e \in dns : e[3] # call[i].got } ELSE dns
            /\ fixed_ips' = fixed_ip_update(fixed_ips, call[i].got, dealloc_values)
            /\ touched' = TouchBy(i, call[i].got)
            /\ pc' = [pc EXCEPT ![i] = "dealloc_teardown"]
            /\ UNCHANGED call
       ELSE /\ pc' = [pc EXCEPT ![i] = "dealloc_failed"]
            /\ call' = [call EXCEPT ![i].err = "InstanceNotFound"]
            /\ UNCHANGED <<effects, dns, fixed_ips, touched>>
    /\ UNCHANGED <<virtual_interfaces, vif_seq>>
    /\ UNCHANGED <<topology, cnt_vpn_clients, networks, last, zone_ok, dns_config, routeVars, deleted>>

\* deallocate_fixed_ip with teardown: _teardown_network_on_host
DeallocTeardown(i) ==
    /\ pc[i] = "dealloc_teardown"
    /\ effects' = [effects EXCEPT ![i] = @ \cup {"teardown"}]
    /\ pc' = [pc EXCEPT ![i] = IF topology = "Flat" THEN "dealloc_disassociate"
                               ELSE "dealloc_done"]
    /\ UNCHANGED <<virtual_interfaces, vif_seq, call, fixed_ips, dns, touched>>
    /\ UNCHANGED <<topology, cnt_vpn_clients, networks, last, zone_ok, dns_config, routeVars, deleted>>

\* FlatManager.deallocate_fixed_ip: the address is disassociated at once
DeallocDisassociate(i) ==
    /\ pc[i] = "dealloc_disassociate"
    /\ fixed_ips' = fixed_ip_disassociate(fixed_ips, call[i].got)
    /\ touched' = TouchBy(i, call[i].got)
    /\ pc' = [pc EXCEPT ![i] = "dealloc_done"]
    /\ UNCHANGED <<virtual_interfaces, vif_seq, call, effects, dns>>
    /\ UNCHANGED <<topology, cnt_vpn_clients, networks, last, zone_ok, dns_config, routeVars, deleted>>

\* deallocate_for_instance ends: the VIF rows of the instance are deleted
DeallocateFinish(i) ==
    /\ pc[i] = "dealloc_done"
    /\ virtual_interfaces' = virtual_interface_delete_by_instance(virtual_interfaces, i)
    /\ pc' = [pc EXCEPT ![i] = "idle"]
    /\ call' = [call EXCEPT ![i] = NoCallArgs]
    /\ effects' = [effects EXCEPT ![i] = {}]
    /\ touched' = [touched EXCEPT ![i] = FALSE]
    /\ deleted' = [deleted EXCEPT ![i] = FALSE]
    /\ UNCHANGED <<vif_seq, fixed_ips, dns>>
    /\ UNCHANGED <<topology, cnt_vpn_clients, networks, last, zone_ok, dns_config, routeVars>>

\* the instance is deleted (its row marked deleted) while it holds its address
DeleteInstance(i) ==
    /\ pc[i] = "holding"
    /\ ~deleted[i]
    /\ deleted' = [deleted EXCEPT ![i] = TRUE]
    /\ UNCHANGED <<virtual_interfaces, vif_seq, pc, call, effects, dns, fixed_ips, touched>>
    /\ UNCHANGED <<topology, cnt_vpn_clients, networks, last, zone_ok, dns_config, routeVars>>

\* the error of a failed allocate_for_instance reaches its caller
AllocateFailed(i) ==
    /\ pc[i] = "failed"
    /\ pc' = [pc EXCEPT ![i] = "idle"]
    /\ call' = [call EXCEPT ![i] = NoCallArgs]
    /\ effects' = [effects EXCEPT ![i] = {}]
    /\ touched' = [touched EXCEPT ![i] = FALSE]
    /\ UNCHANGED <<virtual_interfaces, vif_seq, fixed_ips, dns>>
    /\ UNCHANGED <<topology, cnt_vpn_clients, networks, last, zone_ok, dns_config, routeVars, deleted>>

\* lease_fixed_ip, called by the DHCP bridge for an address the DHCP server
\* hands out: one that is allocated, or whose lease is renewed
LeaseFixedIp(a) ==
    LET row == fixed_ips[RowOf(fixed_ips, a)]
    IN  /\ DHCP(topology)
        /\ row.instance_uuid # 0
        /\ row.allocated \/ row.leased
        /\ fixed_ips' = fixed_ip_update(fixed_ips, a, [leased |-> TRUE])
        /\ touched' = TouchBy(0, a)
        /\ UNCHANGED <<virtual_interfaces, vif_seq, pc, call, effects, dns>>
        /\ UNCHANGED <<topology, cnt_vpn_clients, networks, last, zone_ok, dns_config, routeVars, deleted>>

\* release_fixed_ip, called by the DHCP bridge when a lease ends: the lease
\* flag is cleared and an address that is not allocated is disassociated
ReleaseFixedIp(a) ==
    LET row == fixed_ips[RowOf(fixed_ips, a)]
    IN  /\ DHCP(topology)
        /\ row.instance_uuid # 0
        /\ row.leased
        /\ fixed_ips' = release_fixed_ip(fixed_ips, a)
        /\ touched' = TouchBy(0, a)
        /\ UNCHANGED <<virtual_interfaces, vif_seq, pc, call, effects, dns>>
        /\ UNCHANGED <<topology, cnt_vpn_clients, networks, last, zone_ok, dns_config, routeVars, deleted>>

\* the addresses of the network's block
BlockAddresses == TheNetwork.cidr.first .. NetLast(TheNetwork.cidr)

\* the addresses an instance asks for: none (NoAddr: one of the pool), the
\* reserved network address, and the two lowest addresses past the gateway
RequestedAddresses ==
    {NoAddr, TheNetwork.cidr.first, TheNetwork.cidr.first + 2, TheNetwork.cidr.first + 3}

Next ==
    \/ \E i \in Instances, address \in RequestedAddresses, vpn \in BOOLEAN,
          macs \in [1 .. create_unique_mac_address_attempts -> Macs] :
           AllocateMac(i, address, vpn, macs)
    \/ \E i \in Instances : AllocAssociate(i)
    \/ \E i \in Instances : AllocUpdate(i)
    \/ \E i \in Instances : AllocSetup(i)
    \/ \E i \in Instances : DeallocUpdate(i)
    \/ \E i \in Instances : DeallocTeardown(i)
    \/ \E i \in Instances : DeallocDisassociate(i)
    \/ \E i \in Instances : DeallocateFinish(i)
    \/ \E i \in Instances : AllocateFailed(i)
    \/ \E i \in Instances : DeleteInstance(i)
    \/ \E a \in BlockAddresses : LeaseFixedIp(a)
    \/ \E a \in BlockAddresses : ReleaseFixedIp(a)

Spec == Init /\ [][Next]_vars

-----------------------------------------------------------------------------
(* Properties of fixed-IP allocation, checked under Spec. *)

\* allocate_fixed_ip returned (or is about to return) an address to instance p
\* and p has not begun to deallocate it
Holds(p) == pc[p] \in {"update", "setup", "holding"}

\* the row of the address the call of instance p got
GotRow(p) == fixed_ips[RowOf(fixed_ips, call[p].got)]

\* the row of address a is associated with an instance other than p
HeldByOther(p, a) ==
    \E k \in 1 .. Len(fixed_ips) :
        fixed_ips[k].address = a /\ fixed_ips[k].instance_uuid \notin {0, p}

C5_PoolNeverReserved ==
    \A p \in Instances :
        (Holds(p) /\ call[p].address = NoAddr /\ ~call[p].vpn) =>
            /\ ~GotRow(p).reserved
            /\ (topology = "Flat" /\ call[p].fresh) =>
                   /\ call[p].got = TheNetwork.cidr.first + 2
                   /\ call[p].got \notin {TheNetwork.cidr.first,
                                          TheNetwork.cidr.first + 1,
                                          NetLast(TheNetwork.cidr)}

\* the first pool allocation on a fresh Flat network returned .2
C5_Witness ==
    \E p \in Instances :
        /\ topology = "Flat" /\ pc[p] = "holding"
        /\ call[p].address = NoAddr /\ call[p].fresh
        /\ call[p].got = TheNetwork.cidr.first + 2
        /\ GotRow(p).allocated

\* C6: once deallocate_fixed_ip of the address allocate_fixed_ip returned has
\* ended, and no other actor (a DHCP callback, another instance) wrote the row
\* in between, the row has allocated = FALSE, leased = FALSE and no VIF link;
\* the two handlers never set leased themselves.
C6_AllocateDeallocate ==
    \A p \in Instances :
        /\ (InPair(p) /\ ~touched[p]) => ~GotRow(p).leased
        /\ (pc[p] = "dealloc_done" /\ ~touched[p]) =>
               /\ ~GotRow(p).allocated
               /\ ~GotRow(p).leased
               /\ GotRow(p).virtual_interface_id = 0

\* an instance allocated an address on a DHCP network, which got a VIF link,
\* and deallocated it with no callback in between
C6_Witness ==
    \E p \in Instances :
        /\ pc[p] = "dealloc_done" /\ ~touched[p] /\ DHCP(topology)
        /\ GotRow(p).instance_uuid = p
        /\ ~GotRow(p).allocated /\ GotRow(p).virtual_interface_id = 0
        /\ "sg_add" \in effects[p] /\ "teardown" \in effects[p]

\* the associate step of an instance whose requested address another instance holds
C7_Step ==
    \A p \in Instances :
        (/\ pc[p] = "associate" /\ pc'[p] # "associate"
         /\ ~call[p].vpn /\ call[p].address # NoAddr
         /\ HeldByOther(p, call[p].address)) =>
            /\ pc'[p] = "failed"
            /\ call'[p].err = IF fixed_ips[RowOf(fixed_ips, call[p].address)].reserved
                              THEN "FixedIpNotFoundForNetwork"
                              ELSE "FixedIpAlreadyInUse"
            /\ fixed_ips' = fixed_ips
            /\ dns' = dns
            /\ effects' = effects
            /\ networks' = networks
            /\ virtual_interfaces' = virtual_interfaces

-----------------------------------------------------------------------------
(* The specification of MAC allocation: allocate_for_instance creates one   *)
(* VIF row per network of its batch of two networks (_allocate_mac_         *)
(* addresses), instances interleaved; deallocate_for_instance deletes the   *)
(* rows of the instance.                                                    *)

\* the arguments of the create_networks call that made the two networks
InitVifArgs ==
    [cidr |-> IPNetwork(0, AddrBits - 4), network_size |-> Pow2(3),
     num_networks |-> 2, fixed_cidr |-> NoNet, multi_host |-> FALSE,
     vpn |-> FALSE, topo |-> "Flat", cnt |-> 0]

\* the MAC addresses generate_mac_address draws from for the batches of two
\* networks: enough for a third row beside the two of one batch
NumBatchMacs == 3
BatchMacs == 1 .. NumBatchMacs

InitVif ==
    /\ topology = "Flat"
    /\ cnt_vpn_clients = 0
    /\ networks = create_networks(InitVifArgs, <<>>, <<>>).networks
    /\ fixed_ips = create_networks(InitVifArgs, <<>>, <<>>).fixed_ips
    /\ last = NoCall
    /\ IdleAlloc
    /\ IdleRoute

\* one round of the loop of _allocate_mac_addresses: add_virtual_interface for
\* the next network of the batch
AddVirtualInterface(i, macs) ==
    LET network_id == IF pc[i] = "idle" THEN networks[1].id ELSE networks[2].id
        r == add_virtual_interface(virtual_interfaces, vif_seq, i, network_id, macs)
    IN  /\ pc[i] \in {"idle", "add_vif_2"}
        /\ vif_seq < MaxVifId
        /\ virtual_interfaces' = r.vifs
        /\ vif_seq' = r.seq
        /\ call' = [call EXCEPT ![i] =
                      [NoCallArgs EXCEPT
                          !.network_id = network_id,
                          !.attempts = r.attempts,
                          !.err = IF r.ok THEN ""
                                  ELSE "VirtualInterfaceMacAddressException"]]
        /\ pc' = [pc EXCEPT ![i] = IF ~r.ok THEN "failed"
                                   ELSE IF pc[i] = "idle" THEN "add_vif_2"
                                   ELSE "vifs_done"]
        /\ UNCHANGED <<fixed_ips, effects, dns, touched>>
        /\ UNCHANGED <<topology, cnt_vpn_clients, networks, last, zone_ok, dns_config, routeVars, deleted>>

\* the rest of allocate_for_instance after _allocate_mac_addresses: the call
\* returns, or _allocate_fixed_ips raises; neither touches the VIF rows
AllocateForInstanceReturn(i) ==
    /\ pc[i] = "vifs_done"
    /\ pc' = [pc EXCEPT ![i] = "idle"]
    /\ call' = [call EXCEPT ![i] = NoCallArgs]
    /\ UNCHANGED <<virtual_interfaces, vif_seq, fixed_ips, effects, dns, touched>>
    /\ UNCHANGED <<topology, cnt_vpn_clients, networks, last, zone_ok, dns_config, routeVars, deleted>>

\* deallocate_for_instance: the VIF rows of the instance are deleted
DeleteVirtualInterfaces(i) ==
    /\ pc[i] \in {"vifs_done", "idle"}
    /\ \E k \in 1 .. Len(virtual_interfaces) : virtual_interfaces[k].instance_uuid = i
    /\ virtual_interfaces' = virtual_interface_delete_by_instance(virtual_interfaces, i)
    /\ pc' = [pc EXCEPT ![i] = "idle"]
    /\ call' = [call EXCEPT ![i] = NoCallArgs]
    /\ UNCHANGED <<vif_seq, fixed_ips, effects, dns, touched>>
    /\ UNCHANGED <<topology, cnt_vpn_clients, networks, last, zone_ok, dns_config, routeVars, deleted>>

\* VirtualInterfaceMacAddressException reaches the caller of allocate_for_instance
MacAllocationFailed(i) ==
    /\ pc[i] = "failed"
    /\ pc' = [pc EXCEPT ![i] = "idle"]
    /\ call' = [call EXCEPT ![i] = NoCallArgs]
    /\ UNCHANGED <<virtual_interfaces, vif_seq, fixed_ips, effects, dns, touched>>
    /\ UNCHANGED <<topology, cnt_vpn_clients, networks, last, zone_ok, dns_config, routeVars, deleted>>

NextVif ==
    \/ \E i \in Instances, macs \in [1 .. create_unique_mac_address_attempts -> BatchMacs] :
           AddVirtualInterface(i, macs)
    \/ \E i \in Instances : AllocateForInstanceReturn(i)
    \/ \E i \in Instances : DeleteVirtualInterfaces(i)
    \/ \E i \in Instances : MacAllocationFailed(i)

SpecVif == InitVif /\ [][NextVif]_vars

\* the step of add_virtual_interface for instance p
C8_Step ==
    \A p \in Instances :
        (pc[p] \in {"idle", "add_vif_2"} /\ pc'[p] # pc[p]) =>
            /\ call'[p].attempts \in 1 .. create_unique_mac_address_attempts
            /\ IF pc'[p] = "failed"
               THEN /\ call'[p].attempts = create_unique_mac_address_attempts
                    /\ call'[p].err = "VirtualInterfaceMacAddressException"
                    /\ virtual_interfaces'
                         = SelectSeq(virtual_interfaces, LAMBDA v : v.instance_uuid # p)
                    /\ \A k \in 1 .. Len(virtual_interfaces') :
                           virtual_interfaces'[k].instance_uuid # p
               ELSE /\ Len(virtual_interfaces') = Len(virtual_interfaces) + 1
                    /\ SubSeq(virtual_interfaces', 1, Len(virtual_interfaces))
                         = virtual_interfaces
                    /\ virtual_interfaces'[Len(virtual_interfaces')].instance_uuid = p
                    /\ virtual_interfaces'[Len(virtual_interfaces')].network_id
                         = call'[p].network_id
                    /\ \A k \in 1 .. Len(virtual_interfaces) :
                           virtual_interfaces[k].address
                             # virtual_interfaces'[Len(virtual_interfaces')].address

\* C8: add_virtual_interface makes at most create_unique_mac_address_attempts
\* attempts; when every attempt hits a MAC address in use it deletes all VIF
\* rows of the instance, those of the earlier networks of the batch included,
\* and raises VirtualInterfaceMacAddressException; when an attempt succeeds
\* exactly one row, with a MAC address no other row has, is added.
C8_MacAttemptsAndRollback == [][C8_Step]_vars

\* the second network of a batch ran out of attempts: the row of the first
\* network is gone while the rows of the other instance remain
C8_Witness ==
    \E p \in Instances :
        /\ pc[p] = "failed" /\ call[p].network_id = networks[2].id
        /\ call[p].attempts = create_unique_mac_address_attempts
        /\ \A k \in 1 .. Len(virtual_interfaces) : virtual_interfaces[k].instance_uuid # p
        /\ Len(virtual_interfaces) > 0

-----------------------------------------------------------------------------
(* The specification of host routing (RPCAllocateFixedIP): a manager on     *)
(* self_host handles _allocate_fixed_ips (from allocate_for_instance) and   *)
(* setup_networks_on_host for a batch of networks, running a branch itself  *)
(* or forwarding it by RPC through a green pool, and deallocate_fixed_ip    *)
(* for one address.                                                         *)

Hosts == {"h1", "h2"}

\* the rows of the networks table the handlers read
NetworkRows == [host : Hosts \cup {"none"}, multi_host : BOOLEAN]

\* the host the loop of _allocate_fixed_ips resolves for a network: host is
\* the loop's variable, set_host what set_network_host answers
allocate_host(network, host, set_host) ==
    LET h == IF ~network.multi_host THEN network.host ELSE host
    IN  IF h = "none" THEN set_host ELSE h

\* the host the loop of setup_networks_on_host resolves for a network
setup_host(network, host) == IF ~network.multi_host THEN network.host ELSE host

\* the host RPCAllocateFixedIP.deallocate_fixed_ip resolves for a network
deallocate_host(network, host) == IF ~network.multi_host THEN network.host ELSE host

\* the host of a network is unset for the loop of _allocate_fixed_ips
host_is_none(network, host) ==
    (IF ~network.multi_host THEN network.host ELSE host) = "none"

\* a plausible slip: the elected host is answered but not written to the row
network_set_host_unpersisted(network, host) == network

\* set_network_host on the manager that answers the call:
\* db.network_set_host writes that manager's host to a row that has none
network_set_host(network, host) ==
    IF network.host = "none" THEN [network EXCEPT !.host = host] ELSE network

\* a plausible slip: every branch is run in-process
run_here_always(host, local_host) == TRUE

\* the branch of _allocate_fixed_ips runs in-process, not by RPC
run_here(host, local_host) == host = local_host

\* a plausible slip: the handler returns without waiting for the green pool
waitall_skipped(pool) == TRUE

\* green_pool.waitall() returns once no branch of the pool is running
waitall(pool) == pool = {}

InitRoute ==
    /\ topology = "FlatDHCP"
    /\ cnt_vpn_clients = 0
    /\ networks = <<>>
    /\ fixed_ips = <<>>
    /\ last = NoCall
    /\ IdleAlloc
    /\ self_host \in Hosts
    /\ batch \in [1 .. BatchLen -> NetworkRows]
    /\ op = "none"
    /\ caller_host = "none"
    /\ loop_host = "none"
    /\ idx = 0
    /\ routed = [n \in 1 .. BatchLen |-> "none"]
    /\ result = [n \in 1 .. BatchLen |-> "none"]
    /\ pending = {}
    /\ rpc_pc = "idle"
    /\ dealloc = NoDealloc
    /\ bridge = NoBridge
    /\ age = <<>>
    /\ locks = <<>>
    /\ CONF = <<>>

\* allocate_for_instance reaches _allocate_fixed_ips, or setup_networks_on_host
\* is called, with the host of the instance
BeginBatch(o, host) ==
    /\ rpc_pc = "idle"
    /\ op' = o
    /\ caller_host' = host
    /\ loop_host' = host
    /\ idx' = 1
    /\ routed' = [n \in 1 .. BatchLen |-> "none"]
    /\ result' = [n \in 1 .. BatchLen |-> "none"]
    /\ rpc_pc' = "loop"
    /\ UNCHANGED <<self_host, batch, pending, dealloc, bridge, age, locks, CONF>>
    /\ UNCHANGED <<carveVars, allocVars>>

\* the loop of _allocate_fixed_ips finds no host for the network: the
\* set_network_host call is answered by the manager on set_host, which writes
\* the row, and the loop's host is what the row then holds
SetNetworkHost(set_host) ==
    LET network == batch[idx]
        row == network_set_host(network, set_host)
    IN  /\ rpc_pc = "loop" /\ op = "allocate" /\ idx <= Len(batch)
        /\ host_is_none(network, loop_host)
        /\ batch' = [batch EXCEPT ![idx] = row]
        /\ loop_host' = row.host
        /\ rpc_pc' = "elected"
        /\ UNCHANGED <<self_host, op, caller_host, idx, routed, result, pending, dealloc, bridge, age, locks, CONF>>
        /\ UNCHANGED <<carveVars, allocVars>>

\* one round of the loop of _allocate_fixed_ips once the host is known: the
\* branch is spawned in the green pool for another host, or
\* allocate_fixed_ip runs here and returns or raises
AllocateLoopStep(ok) ==
    LET network == batch[idx]
        host == IF rpc_pc = "elected" THEN loop_host
                ELSE allocate_host(network, loop_host, loop_host)
    IN  /\ op = "allocate" /\ idx <= Len(batch)
        /\ \/ rpc_pc = "elected"
           \/ rpc_pc = "loop" /\ ~host_is_none(network, loop_host)
        /\ loop_host' = host
        /\ routed' = [routed EXCEPT ![idx] = host]
        /\ idx' = idx + 1
        /\ IF ~run_here(host, self_host)
           THEN /\ pending' = pending \cup {idx}
                /\ rpc_pc' = "loop"
                /\ UNCHANGED result
           ELSE /\ result' = [result EXCEPT ![idx] = IF ok THEN "ok" ELSE "failed"]
                /\ rpc_pc' = IF ok THEN "loop" ELSE "raised"
                /\ UNCHANGED pending
        /\ UNCHANGED <<self_host, batch, op, caller_host, dealloc, bridge, age, locks, CONF>>
        /\ UNCHANGED <<carveVars, allocVars>>

\* one round of the loop of FlatManager._allocate_fixed_ips: allocate_fixed_ip
\* runs here for every network; there is no green pool to wait for
FlatAllocateLoopStep(ok) ==
    /\ rpc_pc = "loop" /\ op = "allocate_flat" /\ idx <= Len(batch)
    /\ routed' = [routed EXCEPT ![idx] = self_host]
    /\ result' = [result EXCEPT ![idx] = IF ok THEN "ok" ELSE "failed"]
    /\ idx' = idx + 1
    /\ rpc_pc' = IF ~ok THEN "raised"
                 ELSE IF idx = Len(batch) THEN "returned" ELSE "loop"
    /\ UNCHANGED <<self_host, batch, op, caller_host, loop_host, pending, dealloc, bridge, age, locks, CONF>>
    /\ UNCHANGED <<carveVars, allocVars>>

\* one round of the loop of setup_networks_on_host
SetupLoopStep(ok) ==
    LET network == batch[idx]
        host == setup_host(network, loop_host)
    IN  /\ rpc_pc = "loop" /\ op = "setup" /\ idx <= Len(batch)
        /\ loop_host' = host
        /\ idx' = idx + 1
        /\ IF self_host = host \/ host = "none"
           THEN /\ routed' = [routed EXCEPT ![idx] = self_host]
                /\ result' = [result EXCEPT ![idx] = IF ok THEN "ok" ELSE "failed"]
                /\ rpc_pc' = IF ok THEN "loop" ELSE "raised"
                /\ UNCHANGED pending
           ELSE /\ routed' = [routed EXCEPT ![idx] = host]
                /\ pending' = pending \cup {idx}
                /\ UNCHANGED <<result, rpc_pc>>
        /\ UNCHANGED <<self_host, batch, op, caller_host, dealloc, bridge, age, locks, CONF>>
        /\ UNCHANGED <<carveVars, allocVars>>

\* a forwarded branch ends: the RPC returned or raised in its green thread
BranchFinish(n, ok) ==
    /\ n \in pending
    /\ pending' = pending \ {n}
    /\ result' = [result EXCEPT ![n] = IF ok THEN "ok" ELSE "failed"]
    /\ UNCHANGED <<self_host, batch, op, caller_host, loop_host, idx, routed,
                   rpc_pc, dealloc, bridge, age, locks, CONF>>
    /\ UNCHANGED <<carveVars, allocVars>>

\* the loop is over: green_pool.waitall() and the handler returns
WaitAll ==
    /\ rpc_pc = "loop" /\ idx > Len(batch)
    /\ waitall(pending)
    /\ rpc_pc' = "returned"
    /\ UNCHANGED <<self_host, batch, op, caller_host, loop_host, idx, routed,
                   result, pending, dealloc, bridge, age, locks, CONF>>
    /\ UNCHANGED <<carveVars, allocVars>>

\* allocate_for_instance goes on to get_instance_nw_info
BuildNwInfo ==
    /\ rpc_pc = "returned" /\ op \in {"allocate", "allocate_flat"}
    /\ rpc_pc' = "nw_info"
    /\ UNCHANGED <<self_host, batch, op, caller_host, loop_host, idx, routed,
                   result, pending, dealloc, bridge, age, locks, CONF>>
    /\ UNCHANGED <<carveVars, allocVars>>

\* the request is answered (the next one is taken up once the branches an
\* exception left behind have ended)
ReturnToCaller ==
    /\ \/ rpc_pc = "nw_info"
       \/ rpc_pc = "returned" /\ op = "setup"
       \/ rpc_pc = "raised" /\ pending = {}
    /\ rpc_pc' = "idle"
    /\ op' = "none"
    /\ caller_host' = "none"
    /\ loop_host' = "none"
    /\ idx' = 0
    /\ UNCHANGED <<self_host, batch, routed, result, pending, dealloc, bridge, age, locks, CONF>>
    /\ UNCHANGED <<carveVars, allocVars>>

\* RPCAllocateFixedIP.deallocate_fixed_ip for an address of network n: done
\* here when this is the resolved host, here without teardown when the
\* service of a multi_host network's host is down, else forwarded
RpcDeallocateFixedIp(n, host, service_up) ==
    LET network == batch[n]
        h == deallocate_host(network, host)
    IN  /\ rpc_pc = "idle"
        /\ dealloc' = [called |-> TRUE, network |-> network, caller |-> host, host |-> h,
                       local |-> (h = self_host) \/ (network.multi_host /\ ~service_up),
                       teardown |-> (h = self_host) \/ ~(network.multi_host /\ ~service_up)]
        /\ UNCHANGED <<self_host, batch, op, caller_host, loop_host, idx, routed,
                       result, pending, rpc_pc, bridge, age, locks, CONF>>
        /\ UNCHANGED <<carveVars, allocVars>>

NextRoute ==
    \/ \E o \in {"allocate", "allocate_flat", "setup"}, host \in Hosts : BeginBatch(o, host)
    \/ \E set_host \in Hosts : SetNetworkHost(set_host)
    \/ \E ok \in BOOLEAN : AllocateLoopStep(ok)
    \/ \E ok \in BOOLEAN : FlatAllocateLoopStep(ok)
    \/ \E ok \in BOOLEAN : SetupLoopStep(ok)
    \/ \E n \in 1 .. BatchLen, ok \in BOOLEAN : BranchFinish(n, ok)
    \/ WaitAll
    \/ BuildNwInfo
    \/ ReturnToCaller
    \/ \E n \in 1 .. BatchLen, host \in Hosts, service_up \in BOOLEAN :
           RpcDeallocateFixedIp(n, host, service_up)

SpecRoute == InitRoute /\ [][NextRoute]_vars

\* C9: every network of a batch of _allocate_fixed_ips is routed to, and every
\* deallocate_fixed_ip resolves, network.host when the network is not
\* multi_host and the host the caller supplied when it is, whatever networks
\* the batch handled before.
C9_AuthoritativeHost ==
    /\ op = "allocate" =>
           \A n \in 1 .. Len(batch) :
               routed[n] # "none" =>
                   routed[n] = IF batch[n].multi_host THEN caller_host
                               ELSE batch[n].host
    /\ dealloc.called =>
           dealloc.host = IF dealloc.network.multi_host THEN dealloc.caller
                          ELSE dealloc.network.host

\* a multi_host network that follows a network with a host of its own was
\* routed to that host and not to the caller's
C9_Witness ==
    /\ op = "allocate" /\ Len(batch) >= 2
    /\ ~batch[1].multi_host /\ batch[2].multi_host
    /\ routed[2] # "none" /\ routed[2] = batch[1].host /\ routed[2] # caller_host

\* C10: _allocate_fixed_ips and setup_networks_on_host have returned, and
\* allocate_for_instance builds the network info, only when every branch of
\* the batch, run here or forwarded by RPC, has ended (returned or raised)
\* and the green pool is empty.
C10_Barrier ==
    rpc_pc \in {"returned", "nw_info"} =>
        /\ pending = {}
        /\ \A n \in 1 .. Len(batch) : routed[n] # "none" /\ result[n] # "none"

\* the network info is built after a batch with a forwarded branch and a
\* branch that ran here
C10_Witness ==
    /\ rpc_pc = "nw_info"
    /\ \E n \in 1 .. Len(batch), m \in 1 .. Len(batch) :
           /\ routed[n] # self_host /\ result[n] # "none"
           /\ routed[m] = self_host /\ result[m] = "ok"

\* C11: when a branch of an allocation batch fails, run here or forwarded by
\* RPC, the batch does not return normally and allocate_for_instance does not
\* go on to build the network info; and the error reaches the caller only
\* after the barrier, when no forwarded branch is still running.
C11_ErrorSurfacedAfterBarrier ==
    op = "allocate" =>
        /\ rpc_pc \in {"returned", "nw_info"} =>
               \A n \in 1 .. Len(batch) : result[n] # "failed"
        /\ rpc_pc = "raised" => pending = {}

\* the network info is built although a forwarded branch of the batch failed
C11_Witness ==
    /\ op = "allocate" /\ rpc_pc = "nw_info"
    /\ \E n \in 1 .. Len(batch) : routed[n] # self_host /\ result[n] = "failed"

\* a branch run here raised while a forwarded branch was still running
C11_RaisedBeforeBarrier ==
    /\ op = "allocate" /\ rpc_pc = "raised" /\ pending # {}
    /\ \E n \in 1 .. Len(batch) : routed[n] = self_host /\ result[n] = "failed"

\* C12: deallocate_for_instance and deallocate_fixed_ip of an address whose
\* instance was deleted do not fail on the instance lookup, and when
\* deallocate_fixed_ip has ended the row (unless another instance claimed it
\* since) has allocated = FALSE and no VIF link.
C12_DeallocateDeletedInstance ==
    \A p \in Instances :
        /\ pc[p] # "dealloc_failed"
        /\ (deleted[p] /\ pc[p] = "dealloc_done" /\ ~HeldByOther(p, call[p].got)) =>
               /\ ~GotRow(p).allocated
               /\ GotRow(p).virtual_interface_id = 0
               /\ "sg_remove" \in effects[p]

\* the address of a deleted instance was deallocated
C12_Witness ==
    \E p \in Instances :
        /\ deleted[p] /\ pc[p] = "dealloc_done"
        /\ GotRow(p).instance_uuid \in {0, p}
        /\ ~GotRow(p).allocated /\ GotRow(p).virtual_interface_id = 0

\* a step of release_fixed_ip: a callback (no handler moves) clears a lease
C13_Step ==
    \A k \in 1 .. Len(fixed_ips) :
        (pc' = pc /\ fixed_ips[k].leased /\ ~fixed_ips'[k].leased) =>
            /\ fixed_ips'[k].instance_uuid =
                   IF fixed_ips[k].allocated THEN fixed_ips[k].instance_uuid ELSE 0
            /\ fixed_ips'[k].allocated = fixed_ips[k].allocated
            /\ fixed_ips'[k].virtual_interface_id = fixed_ips[k].virtual_interface_id
            /\ fixed_ips'[k].reserved = fixed_ips[k].reserved
            /\ \A j \in 1 .. Len(fixed_ips) : j # k => fixed_ips'[j] = fixed_ips[j]

\* C13: release_fixed_ip clears leased; it disassociates the address from its
\* instance when the address is not allocated, which puts the row back among
\* those another instance can claim, and keeps the association when the
\* address is still allocated; no other field and no other row changes.
C13_ReleaseDisassociates == [][C13_Step]_vars

\* on a DHCP network an instance holds the address another instance got,
\* deallocated and whose lease was released
C13_Witness ==
    \E p \in Instances, q \in Instances :
        /\ p # q /\ DHCP(topology)
        /\ pc[p] \in {"dealloc_teardown", "dealloc_done"}
        /\ pc[q] = "holding" /\ call[q].got = call[p].got
        /\ GotRow(q).instance_uuid = q /\ ~GotRow(q).leased


\* the VIF rows of instance p on the network with id n
VifRowsOf(p, n) ==
    { k \in 1 .. Len(virtual_interfaces) :
          /\ virtual_interfaces[k].instance_uuid = p
          /\ virtual_interfaces[k].network_id = n }

\* C14: after any sequence of allocate_for_instance and
\* deallocate_for_instance calls an instance has at most one VIF row per
\* network, and exactly one for each network of its batch once
\* _allocate_mac_addresses is through.
C14_OneVifPerPair ==
    \A p \in Instances, k \in 1 .. Len(networks) :
        /\ Cardinality(VifRowsOf(p, networks[k].id)) <= 1
        /\ pc[p] = "vifs_done" => Cardinality(VifRowsOf(p, networks[k].id)) = 1

\* allocate_for_instance ran twice for an instance with no deallocation
\* between, and the instance has two VIF rows on one network
C14_Witness ==
    \E p \in Instances, k \in 1 .. Len(networks) :
        Cardinality(VifRowsOf(p, networks[k].id)) = 2


-----------------------------------------------------------------------------
(* The specification of the network table's lifecycle: create_networks of   *)
(* one caller split at its suspension point (carve from the rows read, then *)
(* insert), whole create_networks calls of other callers in between, and    *)
(* delete_network.  last holds the request in flight.                       *)

NoRequest ==
    [called |-> FALSE, kind |-> "none", cidr |-> NoNet, network_size |-> 0,
     num_networks |-> 0, fixed_cidr |-> NoNet, used |-> <<>>, err |-> "",
     created |-> <<>>, carved |-> CarveErr("not run"), project_id |-> "none",
     network |-> [id |-> 0, project_id |-> "none"], require_disassociated |-> FALSE]

\* the project_id arguments tried: none, or one project
Projects == {"none", "p1"}

\* the network_size arguments tried
LifecycleSizes == {Pow2(2), Pow2(3)}

LifecycleArgs(cidr, network_size, num_networks, project_id) ==
    [cidr |-> cidr, network_size |-> network_size, num_networks |-> num_networks,
     fixed_cidr |-> NoNet, multi_host |-> FALSE, vpn |-> FALSE, topo |-> "Flat",
     cnt |-> 0, project_id |-> project_id]

InitLifecycle ==
    /\ topology = "Flat"
    /\ cnt_vpn_clients = 0
    /\ networks = <<>>
    /\ fixed_ips = <<>>
    /\ last = NoRequest
    /\ IdleAlloc
    /\ IdleRoute

\* _do_create_networks up to the end of the collision loop: the rows are read
\* (network_get_all) and the subnets carved
CarveNetworks(cidr, network_size, num_networks, project_id) ==
    LET carved == carve(cidr, network_size, num_networks, UsedSubnets(networks))
    IN  /\ ~last.called
        /\ Len(networks) + num_networks <= MaxNetworks
        /\ next_network_id(networks) + num_networks - 1 <= MaxNetworkId
        /\ last' = [NoRequest EXCEPT
                       !.called = TRUE, !.kind = "create", !.cidr = cidr,
                       !.network_size = network_size, !.num_networks = num_networks,
                       !.used = UsedSubnets(networks), !.carved = carved,
                       !.err = IF carved.ok THEN "" ELSE carved.err,
                       !.project_id = project_id]
        /\ UNCHANGED <<topology, cnt_vpn_clients, networks, fixed_ips>>
        /\ UNCHANGED <<allocVars, routeVars>>

\* the rest of _do_create_networks: network_create_safe and _create_fixed_ips
\* for each carved subnet, against the table as it is now
InsertNetworks ==
    LET a == LifecycleArgs(last.cidr, last.network_size, last.num_networks,
                           last.project_id)
        r == create_loop(a, last.carved.subnets, 0, networks, fixed_ips, <<>>)
    IN  /\ last.called /\ last.kind = "create"
        /\ last.err = "" /\ last.created = <<>>
        /\ networks' = r.networks
        /\ fixed_ips' = r.fixed_ips
        /\ last' = [last EXCEPT !.err = r.err, !.created = r.created]
        /\ UNCHANGED <<topology, cnt_vpn_clients>>
        /\ UNCHANGED <<allocVars, routeVars>>

\* a whole create_networks call of another caller
CreateNetworksOther(cidr, network_size, num_networks, project_id) ==
    LET a == LifecycleArgs(cidr, network_size, num_networks, project_id)
        r == create_networks(a, networks, fixed_ips)
    IN  /\ Len(networks) + num_networks <= MaxNetworks
        /\ next_network_id(networks) + num_networks - 1 <= MaxNetworkId
        /\ r.err = ""
        /\ networks' = r.networks
        /\ fixed_ips' = r.fixed_ips
        /\ UNCHANGED <<topology, cnt_vpn_clients, last>>
        /\ UNCHANGED <<allocVars, routeVars>>

\* delete_network for the k-th network row
DeleteNetwork(k, require_disassociated) ==
    LET r == delete_network(networks, fixed_ips, networks[k], require_disassociated)
    IN  /\ ~last.called
        /\ k \in 1 .. Len(networks)
        /\ networks' = r.networks
        /\ fixed_ips' = r.fixed_ips
        /\ last' = [NoRequest EXCEPT
                       !.called = TRUE, !.kind = "delete", !.err = r.err,
                       !.network = [id |-> networks[k].id,
                                    project_id |-> networks[k].project_id],
                       !.require_disassociated = require_disassociated]
        /\ UNCHANGED <<topology, cnt_vpn_clients>>
        /\ UNCHANGED <<allocVars, routeVars>>

\* the caller takes the result (or the error) of the request in flight
ReturnRequest ==
    /\ last.called
    /\ ~(last.kind = "create" /\ last.err = "" /\ last.created = <<>>)
    /\ last' = NoRequest
    /\ UNCHANGED <<topology, cnt_vpn_clients, networks, fixed_ips>>
    /\ UNCHANGED <<allocVars, routeVars>>

NextLifecycle ==
    \/ \E cidr \in BaseCidrs, network_size \in LifecycleSizes,
          num_networks \in 1 .. MaxNumNetworks, project_id \in Projects :
           CarveNetworks(cidr, network_size, num_networks, project_id)
    \/ InsertNetworks
    \/ \E cidr \in BaseCidrs, network_size \in LifecycleSizes,
          num_networks \in 1 .. MaxNumNetworks, project_id \in Projects :
           CreateNetworksOther(cidr, network_size, num_networks, project_id)
    \/ \E k \in 1 .. 2 * MaxNetworks, require_disassociated \in BOOLEAN :
           DeleteNetwork(k, require_disassociated)
    \/ ReturnRequest

SpecLifecycle == InitLifecycle /\ [][NextLifecycle]_vars

\* C15: after any sequence of create_networks and delete_network calls, two
\* create_networks calls interleaved included, no two network rows have
\* overlapping v4 blocks.
C15_NoOverlappingNetworks ==
    \A i \in 1 .. Len(networks), j \in 1 .. Len(networks) :
        i # j => ~Overlap(networks[i].cidr, networks[j].cidr)

\* a create_networks call inserted a block that overlaps, without being equal
\* to, the block another call inserted after the first had read the table
C15_Witness ==
    /\ last.kind = "create" /\ last.created # <<>>
    /\ \E i \in 1 .. Len(networks), j \in 1 .. Len(networks) :
           /\ networks[i].id \in { last.created[c] : c \in 1 .. Len(last.created) }
           /\ networks[j].id \notin { last.created[c] : c \in 1 .. Len(last.created) }
           /\ \A u \in 1 .. Len(last.used) : last.used[u] # networks[j].cidr
           /\ Overlap(networks[i].cidr, networks[j].cidr)


\* the network row with this id is in the table
HasNetwork(nets, id) == \E i \in 1 .. Len(nets) : nets[i].id = id

\* a step of delete_network, and any step that takes a row out of the table
C16_Step ==
    /\ (last' # last /\ last'.kind = "delete") =>
           IF last'.require_disassociated /\ last'.network.project_id # "none"
           THEN /\ last'.err # ""
                /\ networks' = networks
                /\ fixed_ips' = fixed_ips
           ELSE /\ last'.err = ""
                /\ ~HasNetwork(networks', last'.network.id)
                /\ \A f \in 1 .. Len(fixed_ips') :
                       fixed_ips'[f].network_id # last'.network.id
                /\ \A i \in 1 .. Len(networks) :
                       networks[i].id # last'.network.id =>
                           \E j \in 1 .. Len(networks') : networks'[j] = networks[i]
    /\ \A i \in 1 .. Len(networks) :
           ~HasNetwork(networks', networks[i].id) =>
               /\ last'.kind = "delete" /\ last'.network.id = networks[i].id
               /\ networks[i].project_id = "none" \/ ~last'.require_disassociated

\* C16: delete_network with require_disassociated=true on a network whose
\* project_id is set raises and leaves the network row and the fixed ips as
\* they were; a network row is deleted only by a delete_network call on a
\* network with no project_id or with require_disassociated=false, and then
\* its fixed ips go with it.
C16_DeleteBlockedWhileAssociated == [][C16_Step]_vars

\* a delete of a network of project p1 was refused and the network and its
\* fixed ips are still there
C16_Witness ==
    /\ last.kind = "delete" /\ last.err # ""
    /\ last.require_disassociated /\ last.network.project_id = "p1"
    /\ HasNetwork(networks, last.network.id)
    /\ \E f \in 1 .. Len(fixed_ips) : fixed_ips[f].network_id = last.network.id

\* a delete of a network of project p1 was forced and the network is gone
C16_WitnessForced ==
    /\ last.kind = "delete" /\ last.err = ""
    /\ ~last.require_disassociated /\ last.network.project_id = "p1"
    /\ ~HasNetwork(networks, last.network.id)


-----------------------------------------------------------------------------
(* Host election and dispatch in _allocate_fixed_ips, checked under         *)
(* SpecRoute.                                                               *)

\* the steps of one round of the loop of _allocate_fixed_ips for a network
\* without a host
C17_Step ==
    /\ (/\ op = "allocate" /\ rpc_pc = "loop" /\ idx <= Len(batch)
        /\ host_is_none(batch[idx], loop_host)
        /\ <<rpc_pc, idx, routed[idx]>> # <<rpc_pc', idx', routed'[idx]>>) =>
           /\ rpc_pc' = "elected" /\ idx' = idx
           /\ batch'[idx].host \in Hosts
           /\ loop_host' = batch'[idx].host
           /\ routed'[idx] = "none" /\ result'[idx] = "none" /\ idx \notin pending'
    /\ (rpc_pc = "elected" /\ rpc_pc' # "elected") =>
           /\ idx' = idx + 1
           /\ batch' = batch
           /\ routed'[idx] = batch[idx].host
           /\ IF batch[idx].host = self_host
              THEN result'[idx] # "none" /\ idx \notin pending'
              ELSE idx \in pending' /\ result'[idx] = "none"

\* C17: in _allocate_fixed_ips a network for which no host is resolved gets
\* one through set_network_host, written to the network row before the
\* allocation for that network is started, and the allocation then runs on
\* that host (here when it is this host, by RPC otherwise).
C17_HostElectedBeforeAllocation == [][C17_Step]_vars

\* a host was elected and written to the row of the network, and the
\* allocation for that network has not started
C17_Witness ==
    /\ op = "allocate" /\ rpc_pc = "elected"
    /\ batch[idx].host \in Hosts /\ loop_host = batch[idx].host
    /\ routed[idx] = "none" /\ result[idx] = "none" /\ idx \notin pending

\* the branches started by a step: spawned in the green pool, or run here
Spawned(n) == n \in pending' /\ n \notin pending
RanHere(n) == result[n] = "none" /\ result'[n] # "none" /\ n \notin pending

C18_Step ==
    /\ (op \in {"allocate", "allocate_flat"} /\ idx' = idx + 1) =>
           /\ routed[idx] = "none" /\ routed'[idx] # "none"
           /\ IF op = "allocate_flat" \/ routed'[idx] = self_host
              THEN RanHere(idx) /\ ~Spawned(idx)
              ELSE Spawned(idx) /\ ~RanHere(idx)
           /\ op = "allocate" => routed'[idx] = loop_host'
           /\ \A m \in 1 .. Len(batch) : m # idx => ~Spawned(m) /\ ~RanHere(m)
    /\ (op \in {"allocate", "allocate_flat"} /\ idx' = idx) =>
           \A m \in 1 .. Len(batch) : ~Spawned(m) /\ ~RanHere(m)
    /\ op = "allocate_flat" => pending' = pending

C18_WitnessFlat ==
    /\ op = "allocate_flat" /\ rpc_pc = "returned" /\ pending = {}
    /\ \A n \in 1 .. Len(batch) : routed[n] = self_host /\ result[n] = "ok"


-----------------------------------------------------------------------------
(* The specification of fixed-IP allocation with a second network that has  *)
(* no v4 cidr (a network created from cidr_v6 alone), under FlatManager and *)
(* FlatDHCPManager, whose allocate_fixed_ip is NetworkManager's.            *)

\* the row _do_create_networks builds for a subnet with no v4 side: no cidr,
\* gateway, broadcast or dhcp_start, and no fixed ips
NoCidrNetwork(id) ==
    [id |-> id, cidr |-> NoNet, gateway |-> NoAddr, broadcast |-> NoAddr,
     dhcp_start |-> NoAddr, vpn_private_address |-> NoAddr, vlan |-> NoAddr,
     vpn_public_port |-> NoAddr, multi_host |-> FALSE, project_id |-> "none",
     host |-> "none"]

InitNoCidr ==
    /\ topology \in {"Flat", "FlatDHCP"}
    /\ cnt_vpn_clients = 0
    /\ networks = Append(create_networks(InitArgs(topology, 0), <<>>, <<>>).networks,
                         NoCidrNetwork(2))
    /\ fixed_ips = create_networks(InitArgs(topology, 0), <<>>, <<>>).fixed_ips
    /\ last = NoCall
    /\ virtual_interfaces = <<>>
    /\ vif_seq = 0
    /\ pc = [i \in Instances |-> "idle"]
    /\ call = [i \in Instances |-> NoCallArgs]
    /\ effects = [i \in Instances |-> {}]
    /\ dns = {}
    /\ dns_config \in AllocDnsConfigs
    /\ zone_ok = (validate_instance_zone_for_dns_domain(dns_config) = "valid")
    /\ touched = [i \in Instances |-> FALSE]
    /\ deleted = [i \in Instances |-> FALSE]
    /\ IdleRoute

\* allocate_for_instance for the network without a cidr, up to
\* _allocate_mac_addresses
AllocateMacNoCidr(i, address, macs) ==
    LET r == add_virtual_interface(virtual_interfaces, vif_seq, i, networks[2].id, macs)
    IN  /\ pc[i] = "idle"
        /\ vif_seq < MaxAllocations
        /\ virtual_interfaces' = r.vifs
        /\ vif_seq' = r.seq
        /\ call' = [call EXCEPT ![i] =
                      [NoCallArgs EXCEPT
                          !.network_id = networks[2].id, !.address = address,
                          !.err = IF r.ok THEN ""
                                  ELSE "VirtualInterfaceMacAddressException"]]
        /\ pc' = [pc EXCEPT ![i] = IF r.ok THEN "associate" ELSE "failed"]
        /\ UNCHANGED <<fixed_ips, effects, dns, touched>>
        /\ UNCHANGED <<topology, cnt_vpn_clients, networks, last, zone_ok, dns_config, routeVars, deleted>>

\* allocate_fixed_ip for a network without a cidr: the associate, the security
\* group refresh and the row update are skipped; address stays None
AllocNoCidr(i) ==
    /\ pc[i] = "associate"
    /\ topology # "Vlan" /\ ~has_cidr(NetworkOf(i))
    /\ pc' = [pc EXCEPT ![i] = "setup"]
    /\ UNCHANGED <<virtual_interfaces, vif_seq, call, fixed_ips, effects, dns, touched>>
    /\ UNCHANGED <<topology, cnt_vpn_clients, networks, last, zone_ok, dns_config, routeVars, deleted>>

\* deallocate_for_instance for an instance without fixed ips: no
\* deallocate_fixed_ip call is made
DeallocateNoFixedIps(i) ==
    /\ pc[i] = "holding"
    /\ call[i].got = NoAddr
    /\ pc' = [pc EXCEPT ![i] = "dealloc_done"]
    /\ UNCHANGED <<virtual_interfaces, vif_seq, call, fixed_ips, effects, dns, touched>>
    /\ UNCHANGED <<topology, cnt_vpn_clients, networks, last, zone_ok, dns_config, routeVars, deleted>>

NextNoCidr ==
    \/ Next
    \/ \E i \in Instances, address \in RequestedAddresses,
          macs \in [1 .. create_unique_mac_address_attempts -> Macs] :
           AllocateMacNoCidr(i, address, macs)
    \/ \E i \in Instances : AllocNoCidr(i)
    \/ \E i \in Instances : DeallocateNoFixedIps(i)

SpecNoCidr == InitNoCidr /\ [][NextNoCidr]_vars

\* the steps of allocate_fixed_ip of instance p
C19_Step ==
    \A p \in Instances :
        /\ ("setup" \notin effects[p] /\ "setup" \in effects'[p]) =>
               /\ pc[p] = "setup" /\ pc'[p] = "holding"
               /\ IF NetworkOf(p).cidr # NoNet
                  THEN /\ GotRow(p).allocated /\ GotRow(p).instance_uuid = p
                       /\ GotRow(p).virtual_interface_id # 0
                       /\ GotRow(p).network_id = NetworkOf(p).id
                  ELSE call[p].got = NoAddr
        /\ (pc[p] # "holding" /\ pc'[p] = "holding") =>
               /\ pc[p] = "setup"
               /\ "setup" \notin effects[p] /\ "setup" \in effects'[p]
        /\ (/\ pc[p] \in {"associate", "setup"} /\ pc'[p] # pc[p]
            /\ call[p].err = "" /\ NetworkOf(p).cidr = NoNet) =>
               /\ pc'[p] = IF pc[p] = "associate" THEN "setup" ELSE "holding"
               /\ fixed_ips' = fixed_ips
               /\ call'[p].got = NoAddr

\* C19: every NetworkManager.allocate_fixed_ip call that succeeds runs
\* _setup_network_on_host exactly once, as its last step: for a network with
\* a cidr after the row it got was written (allocated, VIF linked), and for a
\* network without a v4 cidr too, where the call claims and changes no
\* fixed-IP row and returns no address.
C19_SetupOnceAfterUpdate == [][C19_Step]_vars

\* an instance is through allocate_fixed_ip for the network without a cidr:
\* set up, no address, and no row of the table is associated with it
C19_Witness ==
    \E p \in Instances :
        /\ pc[p] = "holding" /\ NetworkOf(p).cidr = NoNet
        /\ call[p].got = NoAddr /\ "setup" \in effects[p]
        /\ \A k \in 1 .. Len(fixed_ips) : fixed_ips[k].instance_uuid # p

\* an instance is through allocate_fixed_ip for the network with a cidr
C19_WitnessCidr ==
    \E p \in Instances :
        /\ pc[p] = "holding" /\ NetworkOf(p).cidr # NoNet
        /\ GotRow(p).allocated /\ "setup" \in effects[p]


-----------------------------------------------------------------------------
(* The specification of the DNS records of allocate_fixed_ip: FlatManager   *)
(* and FlatDHCPManager with every DNS configuration of one instance DNS     *)
(* domain and instances in zone az1.                                        *)

\* the DNS configurations: no instance DNS domain, or example.org with a row
\* in the dnsdomains table (no zone, the instances' zone, another one) and
\* any row or none under the name of the instances' zone
DnsConfigs ==
    {NoDnsDomain} \cup
    { [instance_dns_domain |-> "example.org", availability_zone |-> "az1",
       dnsdomains |-> t] :
          t \in { f \in [DnsNames -> {"missing", "", "az1", "az2"}] :
                      f["example.org"] # "missing" } }

InitDns ==
    /\ topology \in {"Flat", "FlatDHCP"}
    /\ cnt_vpn_clients = 0
    /\ networks = create_networks(InitArgs(topology, 0), <<>>, <<>>).networks
    /\ fixed_ips = create_networks(InitArgs(topology, 0), <<>>, <<>>).fixed_ips
    /\ last = NoCall
    /\ virtual_interfaces = <<>>
    /\ vif_seq = 0
    /\ pc = [i \in Instances |-> "idle"]
    /\ call = [i \in Instances |-> NoCallArgs]
    /\ effects = [i \in Instances |-> {}]
    /\ dns = {}
    /\ dns_config \in DnsConfigs
    /\ zone_ok = (validate_instance_zone_for_dns_domain(dns_config) = "valid")
    /\ touched = [i \in Instances |-> FALSE]
    /\ deleted = [i \in Instances |-> FALSE]
    /\ IdleRoute

SpecDns == InitDns /\ [][Next]_vars

\* the availability zone of the instances is compatible with the zone of the
\* configured instance DNS domain: the domain has no zone, or the same one
ZoneCompatible ==
    \/ dns_config.instance_dns_domain = ""
    \/ dns_config.dnsdomains[dns_config.instance_dns_domain]
           \in {"", dns_config.availability_zone}

\* the A records of instance p
RecordsOf(p) == { e \in dns : e[2] = p }

\* C20: an allocate_fixed_ip call that returned its address left exactly two
\* A records for it, one under the display name and one under the uuid of
\* the instance, if the instance's availability zone is compatible with the
\* zone of the DNS domain, and none if it is not; and no call fails over the
\* zones.
C20_DnsRecordsIffZoneCompatible ==
    \A p \in Instances :
        /\ pc[p] = "holding" =>
               RecordsOf(p) = IF ZoneCompatible
                              THEN {<<"display_name", p, call[p].got>>,
                                    <<"uuid", p, call[p].got>>}
                              ELSE {}
        /\ ~(pc[p] = "failed" /\ call[p].err = "AttributeError")

\* the instance DNS domain is in another zone than the instance, and the
\* allocation returned with the two A records created
C20_Witness ==
    \E p \in Instances :
        /\ ~ZoneCompatible /\ pc[p] = "holding"
        /\ RecordsOf(p) = {<<"display_name", p, call[p].got>>, <<"uuid", p, call[p].got>>}

\* the zones are compatible, and the allocation failed in the zone check
\* after it wrote the row
C20_WitnessError ==
    \E p \in Instances :
        /\ ZoneCompatible /\ pc[p] = "failed" /\ call[p].err = "AttributeError"
        /\ GotRow(p).allocated /\ GotRow(p).instance_uuid = p


-----------------------------------------------------------------------------
(* The specification of deallocate_fixed_ip with its teardown argument and  *)
(* CONF.force_dhcp_release: instance 1 holds an address of the network; the *)
(* call enters FlatManager (Flat) or RPCAllocateFixedIP (FlatDHCP, VLAN),   *)
(* and NetworkManager.deallocate_fixed_ip then runs step by step on the     *)
(* host it was routed to.  dealloc holds the call and the calls it makes.   *)

\* the address instance 1 holds
HeldAddress == IPNetwork(0, AddrBits - 3).first + 2

\* no deallocate_fixed_ip call is in progress; force is CONF.force_dhcp_release
NoRelease(force) ==
    [called |-> FALSE, pc |-> "idle", address |-> NoAddr, teardown_arg |-> TRUE,
     teardown |-> TRUE, host |-> "none", at |-> "none", vif_id |-> 0,
     log |-> <<>>, force |-> force, service_up |-> TRUE]

\* the states of the VIF link of the held address: linked to a VIF row,
\* linked to a row that is gone, not linked
VifLinks == {"linked", "row_missing", "no_link"}

\* db.virtual_interface_get: the row with that id, or none
virtual_interface_get(vifs, vif_id) ==
    LET ks == { k \in 1 .. Len(vifs) : vifs[k].id = vif_id }
    IN  IF ks = {} THEN [id |-> 0, address |-> 0] ELSE vifs[FirstOf(ks)]

\* a plausible slip: the local branch hands the teardown argument on
local_teardown_passed(teardown) == teardown

\* RPCAllocateFixedIP.deallocate_fixed_ip on the resolved host: the call of
\* the superclass carries no teardown argument, so the default applies
local_teardown(teardown) == TRUE

\* a plausible slip: the network service of the host is not looked up
deallocate_route_no_service(topo, network, local_host, host, teardown, service_up) ==
    LET h == deallocate_host(network, host)
    IN  IF topo = "Flat" THEN [at |-> local_host, teardown |-> teardown]
        ELSE IF h = local_host
        THEN [at |-> local_host, teardown |-> local_teardown(teardown)]
        ELSE [at |-> h, teardown |-> TRUE]

\* the teardown the NetworkManager.deallocate_fixed_ip call runs with, and the
\* host it runs on, for a call that entered the manager of this topology on
\* local_host
deallocate_route(topo, network, local_host, host, teardown, service_up) ==
    LET h == deallocate_host(network, host)
    IN  IF topo = "Flat" THEN [at |-> local_host, teardown |-> teardown]
        ELSE IF h = local_host
        THEN [at |-> local_host, teardown |-> local_teardown(teardown)]
        ELSE IF network.multi_host /\ ~service_up
        THEN [at |-> local_host, teardown |-> FALSE]
        ELSE [at |-> h, teardown |-> TRUE]

\* a plausible slip: the release packet is not sent
after_update_no_release(teardown, force) == IF teardown THEN "teardown" ELSE "done"

\* the step of deallocate_fixed_ip that follows the row update
after_update(teardown, force) ==
    IF ~teardown THEN "done" ELSE IF force THEN "release" ELSE "teardown"

\* a plausible slip: the VIF is not looked at before the release
vif_for_release_unchecked(vifs, vif_id) == TRUE

\* the forced release goes on: the row had a VIF link and the VIF row exists
vif_for_release(vifs, vif_id) ==
    vif_id # 0 /\ virtual_interface_get(vifs, vif_id).id # 0

InitDeallocate ==
    /\ topology \in Topologies
    /\ cnt_vpn_clients = 0
    /\ \E h \in Hosts, multi_host \in BOOLEAN :
           networks = [k \in {1} |->
                          [create_networks(InitArgs(topology, 0), <<>>, <<>>).networks[1]
                              EXCEPT !.host = h, !.multi_host = multi_host]]
    /\ \E link \in VifLinks :
           /\ fixed_ips = fixed_ip_update(
                              create_networks(InitArgs(topology, 0), <<>>, <<>>).fixed_ips,
                              HeldAddress,
                              [instance_uuid |-> 1, allocated |-> TRUE,
                               virtual_interface_id |-> IF link = "no_link" THEN 0 ELSE 1])
           /\ virtual_interfaces =
                  IF link = "row_missing" THEN <<>>
                  ELSE <<[id |-> 1, address |-> 1, instance_uuid |-> 1, network_id |-> 1]>>
    /\ last = NoCall
    /\ vif_seq = 1
    /\ pc = [i \in Instances |-> IF i = 1 THEN "holding" ELSE "idle"]
    /\ call = [i \in Instances |->
                  IF i = 1 THEN [NoCallArgs EXCEPT !.network_id = 1, !.got = HeldAddress]
                  ELSE NoCallArgs]
    /\ effects = [i \in Instances |-> {}]
    /\ dns = {}
    /\ zone_ok = TRUE
    /\ dns_config = NoDnsDomain
    /\ touched = [i \in Instances |-> FALSE]
    /\ deleted = [i \in Instances |-> FALSE]
    /\ self_host \in Hosts
    /\ batch = <<>>
    /\ op = "none"
    /\ caller_host = "none"
    /\ loop_host = "none"
    /\ idx = 0
    /\ routed = <<>>
    /\ result = <<>>
    /\ pending = {}
    /\ rpc_pc = "idle"
    /\ \E force \in BOOLEAN : dealloc = NoRelease(force)
    /\ bridge = NoBridge
    /\ age = <<>>
    /\ locks = <<>>
    /\ CONF = <<>>

\* deallocate_fixed_ip(address, host, teardown) enters the manager on
\* self_host: the row and its VIF link are read and the call is routed
DeallocateFixedIp(host, teardown, service_up) ==
    LET row == fixed_ips[RowOf(fixed_ips, HeldAddress)]
        r == deallocate_route(topology, TheNetwork, self_host, host, teardown, service_up)
    IN  /\ ~dealloc.called
        /\ row.instance_uuid # 0
        /\ dealloc' = [dealloc EXCEPT
                          !.called = TRUE, !.pc = "update", !.address = HeldAddress,
                          !.teardown_arg = teardown, !.teardown = r.teardown,
                          !.host = host, !.at = r.at, !.service_up = service_up,
                          !.vif_id = row.virtual_interface_id, !.log = <<>>]
        /\ UNCHANGED <<self_host, batch, op, caller_host, loop_host, idx, routed,
                       result, pending, rpc_pc, bridge, age, locks, CONF>>
        /\ UNCHANGED <<carveVars, allocVars>>

\* the security group refresh, the DNS records and the row update
DeallocateRowUpdate ==
    /\ dealloc.called /\ dealloc.pc = "update"
    /\ fixed_ips' = fixed_ip_update(fixed_ips, dealloc.address, dealloc_values)
    /\ dealloc' = [dealloc EXCEPT
                      !.log = Append(@, <<"fixed_ip_update", 0>>),
                      !.pc = after_update(dealloc.teardown, dealloc.force)]
    /\ UNCHANGED <<topology, cnt_vpn_clients, networks, last>>
    /\ UNCHANGED <<allocVars>>
    /\ UNCHANGED <<self_host, batch, op, caller_host, loop_host, idx, routed,
                   result, pending, rpc_pc, bridge, age, locks, CONF>>

\* CONF.force_dhcp_release: without the VIF the error is logged and the
\* handler returns; else driver.release_dhcp is sent for the VIF's address
DeallocateReleaseDhcp ==
    /\ dealloc.called /\ dealloc.pc = "release"
    /\ dealloc' =
           IF vif_for_release(virtual_interfaces, dealloc.vif_id)
           THEN [dealloc EXCEPT
                    !.log = Append(@, <<"release_dhcp",
                                        virtual_interface_get(virtual_interfaces,
                                                              dealloc.vif_id).address>>),
                    !.pc = "teardown"]
           ELSE [dealloc EXCEPT !.pc = "done"]
    /\ UNCHANGED <<self_host, batch, op, caller_host, loop_host, idx, routed,
                   result, pending, rpc_pc, bridge, age, locks, CONF>>
    /\ UNCHANGED <<carveVars, allocVars>>

\* _teardown_network_on_host
DeallocateTeardownOnHost ==
    /\ dealloc.called /\ dealloc.pc = "teardown"
    /\ dealloc' = [dealloc EXCEPT !.log = Append(@, <<"teardown", 0>>), !.pc = "done"]
    /\ UNCHANGED <<self_host, batch, op, caller_host, loop_host, idx, routed,
                   result, pending, rpc_pc, bridge, age, locks, CONF>>
    /\ UNCHANGED <<carveVars, allocVars>>

\* NetworkManager.deallocate_fixed_ip returned: FlatManager disassociates the
\* address, and the call returns to its caller
DeallocateReturn ==
    /\ dealloc.called /\ dealloc.pc = "done"
    /\ fixed_ips' = IF topology = "Flat"
                    THEN fixed_ip_disassociate(fixed_ips, dealloc.address)
                    ELSE fixed_ips
    /\ dealloc' = [dealloc EXCEPT !.pc = "returned"]
    /\ UNCHANGED <<topology, cnt_vpn_clients, networks, last>>
    /\ UNCHANGED <<allocVars>>
    /\ UNCHANGED <<self_host, batch, op, caller_host, loop_host, idx, routed,
                   result, pending, rpc_pc, bridge, age, locks, CONF>>

\* the next call can be made
DeallocateNext ==
    /\ dealloc.called /\ dealloc.pc = "returned"
    /\ dealloc' = NoRelease(dealloc.force)
    /\ UNCHANGED <<self_host, batch, op, caller_host, loop_host, idx, routed,
                   result, pending, rpc_pc, bridge, age, locks, CONF>>
    /\ UNCHANGED <<carveVars, allocVars>>

NextDeallocate ==
    \/ \E host \in Hosts, teardown \in BOOLEAN, service_up \in BOOLEAN :
           DeallocateFixedIp(host, teardown, service_up)
    \/ DeallocateRowUpdate
    \/ DeallocateReleaseDhcp
    \/ DeallocateTeardownOnHost
    \/ DeallocateReturn
    \/ DeallocateNext

SpecDeallocate == InitDeallocate /\ [][NextDeallocate]_vars

\* the calls the handler made so far, by name
Logged(name) == \E k \in 1 .. Len(dealloc.log) : dealloc.log[k][1] = name

\* C21: a deallocate_fixed_ip call made with teardown=false sends no DHCP
\* release packet and does not run _teardown_network_on_host, in every
\* topology and on whichever host the call is handled; once it returned the
\* row is not allocated and has no VIF link.
C21_NoTeardownWhenNotAsked ==
    (dealloc.called /\ ~dealloc.teardown_arg) =>
        /\ ~Logged("release_dhcp")
        /\ ~Logged("teardown")
        /\ dealloc.pc = "returned" =>
               /\ ~fixed_ips[RowOf(fixed_ips, dealloc.address)].allocated
               /\ fixed_ips[RowOf(fixed_ips, dealloc.address)].virtual_interface_id = 0

\* a call with teardown=false on the host of the network ran
\* _teardown_network_on_host
C21_Witness ==
    /\ dealloc.called /\ ~dealloc.teardown_arg /\ dealloc.at = self_host
    /\ topology # "Flat" /\ Logged("teardown")


\* the row of the address of the call
DeallocRow == fixed_ips[RowOf(fixed_ips, dealloc.address)]

\* the VIF row the address was linked to when the call read it is there
HadVif ==
    /\ dealloc.vif_id # 0
    /\ \E k \in 1 .. Len(virtual_interfaces) : virtual_interfaces[k].id = dealloc.vif_id

\* C22: with force_dhcp_release set, a deallocate_fixed_ip call with
\* teardown=true for an address that has no VIF link, or whose VIF row is
\* gone, comes to its end (nothing is raised) with the row not allocated and
\* without VIF link, no DHCP release packet sent and
\* _teardown_network_on_host not run.
C22_MissingVifReturnsQuietly ==
    (dealloc.called /\ dealloc.teardown_arg /\ dealloc.force /\ ~HadVif) =>
        /\ ~Logged("release_dhcp")
        /\ ~Logged("teardown")
        /\ dealloc.pc \in {"update", "release", "done", "returned"}
        /\ dealloc.pc \in {"release", "done", "returned"} =>
               /\ dealloc.log = <<<<"fixed_ip_update", 0>>>>
               /\ ~DeallocRow.allocated /\ DeallocRow.virtual_interface_id = 0

\* such a call, run with teardown where it was routed, has returned
C22_Witness ==
    /\ dealloc.called /\ dealloc.teardown_arg /\ dealloc.teardown /\ dealloc.force
    /\ ~HadVif /\ dealloc.pc = "returned"
    /\ dealloc.log = <<<<"fixed_ip_update", 0>>>>

\* C23: in a deallocate_fixed_ip call with teardown=true and
\* force_dhcp_release set, _teardown_network_on_host comes after the DHCP
\* release packet and the packet after the row update; the packet carries the
\* MAC address of the VIF the row was linked to before the update cleared the
\* link; a call that ran with teardown for an address with its VIF made the
\* three steps in that order.
C23_UpdateReleaseTeardown ==
    (dealloc.called /\ dealloc.teardown_arg /\ dealloc.force) =>
        /\ \A k \in 1 .. Len(dealloc.log) :
               /\ dealloc.log[k][1] = "teardown" =>
                      \E j \in 1 .. k - 1 : dealloc.log[j][1] = "release_dhcp"
               /\ dealloc.log[k][1] = "release_dhcp" =>
                      /\ \E j \in 1 .. k - 1 : dealloc.log[j][1] = "fixed_ip_update"
                      /\ HadVif
                      /\ dealloc.log[k][2] =
                             virtual_interface_get(virtual_interfaces, dealloc.vif_id).address
                      /\ DeallocRow.virtual_interface_id = 0
        /\ (dealloc.pc = "returned" /\ dealloc.teardown /\ HadVif) =>
               dealloc.log = << <<"fixed_ip_update", 0>>,
                                <<"release_dhcp",
                                  virtual_interface_get(virtual_interfaces,
                                                        dealloc.vif_id).address>>,
                                <<"teardown", 0>> >>

\* the three steps were made
C23_Witness ==
    /\ dealloc.called /\ dealloc.teardown_arg /\ dealloc.force /\ HadVif
    /\ dealloc.pc = "returned" /\ Len(dealloc.log) = 3
    /\ dealloc.log[2][1] = "release_dhcp" /\ dealloc.log[3][1] = "teardown"


-----------------------------------------------------------------------------
(* The specification of the DHCP callbacks and of the periodic reclamation  *)
(* of stale addresses: instances allocate and deallocate addresses of one   *)
(* network, the DHCP bridge calls lease_fixed_ip and release_fixed_ip for   *)
(* any address of the pool, time passes in ticks, and the periodic task     *)
(* _disassociate_stale_fixed_ips runs at any time.                          *)

\* CONF.fixed_ip_disassociate_timeout, in ticks
fixed_ip_disassociate_timeout == 1

\* ages are counted up to the first value past the timeout
MaxAge == fixed_ip_disassociate_timeout + 1

\* the lease callbacks still in flight for addresses that were deallocated:
\* the teardown of the deallocation rewrites the DHCP hosts file
\* (driver.update_dhcp), after which the server renews no such lease
MaxLateLeases == 1

\* the addresses the DHCP bridge reports
NumCallbackAddresses == 2

\* the first addresses of the pool of the network: those past the bottom
\* reserved ones
CallbackAddresses ==
    { IPNetwork(0, AddrBits - 3).first + bottom_reserved_ips(topology) + k :
          k \in 0 .. NumCallbackAddresses - 1 }

\* a plausible slip: no manager reclaims stale addresses
timeout_fixed_ips_never(topo) == FALSE

\* a plausible slip: FlatManager inherits the attribute of NetworkManager
timeout_fixed_ips_always(topo) == TRUE

\* class attribute timeout_fixed_ips: True in NetworkManager, False in FlatManager
timeout_fixed_ips(topo) == topo # "Flat"

\* the row is written now: its updated_at is the current time
Touch(ages, address) == [a \in DOMAIN ages |-> IF a = address THEN 0 ELSE ages[a]]

\* lease_fixed_ip: raises for an address no instance holds, else sets the
\* lease flag and updated_at, and warns when the address is not allocated
lease_fixed_ip(fips, address) ==
    LET fixed_ip == fips[RowOf(fips, address)]
    IN  IF fixed_ip.instance_uuid = 0
        THEN [fixed_ips |-> fips, raised |-> TRUE, warned |-> FALSE]
        ELSE [fixed_ips |-> fixed_ip_update(fips, address, [leased |-> TRUE]),
              raised |-> FALSE, warned |-> ~fixed_ip.allocated]

\* release_fixed_ip as the bridge calls it: raises for an address no
\* instance holds, else warns when the address was not leased and writes
\* what release_fixed_ip writes
release_fixed_ip_call(fips, address) ==
    LET fixed_ip == fips[RowOf(fips, address)]
    IN  IF fixed_ip.instance_uuid = 0
        THEN [fixed_ips |-> fips, raised |-> TRUE, warned |-> FALSE]
        ELSE [fixed_ips |-> release_fixed_ip(fips, address),
              raised |-> FALSE, warned |-> ~fixed_ip.leased]

\* db.fixed_ip_disassociate_all_by_timeout(host, time): the rows of the
\* networks of the host that an instance holds, that are not allocated and
\* were last updated before time, lose their instance and their lease flag
fixed_ip_disassociate_all_by_timeout(fips, nets, host, ages, timeout) ==
    LET stale(k) == /\ fips[k].instance_uuid # 0
                    /\ ~fips[k].allocated
                    /\ ages[fips[k].address] > timeout
                    /\ \E n \in 1 .. Len(nets) : /\ nets[n].id = fips[k].network_id
                                                 /\ nets[n].host = host
    IN  [k \in 1 .. Len(fips) |->
            IF stale(k) THEN [fips[k] EXCEPT !.instance_uuid = 0, !.leased = FALSE]
            ELSE fips[k]]

\* _disassociate_stale_fixed_ips: the rows after one run of the periodic task
disassociate_stale_fixed_ips(topo, fips, nets, host, ages) ==
    IF timeout_fixed_ips(topo)
    THEN fixed_ip_disassociate_all_by_timeout(fips, nets, host, ages,
                                              fixed_ip_disassociate_timeout)
    ELSE fips

InitReclaim ==
    /\ topology \in Topologies
    /\ cnt_vpn_clients = 0
    /\ self_host = "h1"
    /\ networks = [k \in {1} |->
                      [create_networks(InitArgs(topology, 0), <<>>, <<>>).networks[1]
                          EXCEPT !.host = "h1"]]
    /\ fixed_ips = create_networks(InitArgs(topology, 0), <<>>, <<>>).fixed_ips
    /\ last = NoCall
    /\ virtual_interfaces = <<>>
    /\ vif_seq = 0
    /\ pc = [i \in Instances |-> "idle"]
    /\ call = [i \in Instances |-> NoCallArgs]
    /\ effects = [i \in Instances |-> {}]
    /\ dns = {}
    /\ zone_ok = TRUE
    /\ dns_config = NoDnsDomain
    /\ touched = [i \in Instances |-> FALSE]
    /\ deleted = [i \in Instances |-> FALSE]
    /\ batch = <<>>
    /\ op = "none"
    /\ caller_host = "none"
    /\ loop_host = "none"
    /\ idx = 0
    /\ routed = <<>>
    /\ result = <<>>
    /\ pending = {}
    /\ rpc_pc = "idle"
    /\ dealloc = NoDealloc
    /\ bridge = NoBridge
    /\ age = [a \in IPNetwork(0, AddrBits - 3).first .. NetLast(IPNetwork(0, AddrBits - 3))
                 |-> MaxAge]
    /\ locks = <<>>
    /\ CONF = <<>>

\* what the actions of this specification leave alone
ReclaimUnchanged ==
    UNCHANGED <<topology, cnt_vpn_clients, networks, last, virtual_interfaces, vif_seq,
                effects, dns, zone_ok, dns_config, touched, deleted, self_host, batch,
                op, caller_host, loop_host, idx, routed, result, pending, rpc_pc,
                dealloc, locks, CONF>>

\* allocate_fixed_ip, first write: an address of the pool is associated
ReclaimAssociate(i) ==
    LET r == fixed_ip_associate_pool(fixed_ips, TheNetwork.id, i)
    IN  /\ pc[i] = "idle"
        /\ r.ok
        /\ r.address \in CallbackAddresses
        /\ fixed_ips' = r.fixed_ips
        /\ age' = Touch(age, r.address)
        /\ call' = [call EXCEPT ![i] = [NoCallArgs EXCEPT !.network_id = TheNetwork.id,
                                                          !.got = r.address]]
        /\ pc' = [pc EXCEPT ![i] = "update"]
        /\ UNCHANGED bridge
        /\ ReclaimUnchanged

\* allocate_fixed_ip, second write: the address is allocated
ReclaimAllocated(i) ==
    /\ pc[i] = "update"
    /\ fixed_ips' = fixed_ip_update(fixed_ips, call[i].got, alloc_values(0))
    /\ age' = Touch(age, call[i].got)
    /\ pc' = [pc EXCEPT ![i] = "holding"]
    /\ UNCHANGED <<call, bridge>>
    /\ ReclaimUnchanged

\* deallocate_fixed_ip: allocated and the VIF link are cleared, and
\* FlatManager disassociates the address
ReclaimDeallocate(i) ==
    LET cleared == fixed_ip_update(fixed_ips, call[i].got, dealloc_values)
    IN  /\ pc[i] = "holding"
        /\ fixed_ips' = IF topology = "Flat"
                        THEN fixed_ip_disassociate(cleared, call[i].got)
                        ELSE cleared
        /\ age' = Touch(age, call[i].got)
        /\ pc' = [pc EXCEPT ![i] = "idle"]
        /\ call' = [call EXCEPT ![i] = NoCallArgs]
        /\ UNCHANGED bridge
        /\ ReclaimUnchanged

\* the DHCP bridge calls lease_fixed_ip for an address
LeaseCallback(a) ==
    LET fixed_ip == fixed_ips[RowOf(fixed_ips, a)]
        late == fixed_ip.instance_uuid # 0 /\ ~fixed_ip.allocated
        r == lease_fixed_ip(fixed_ips, a)
    IN  /\ DHCP(topology)
        /\ late => bridge.late < MaxLateLeases
        /\ fixed_ips' = r.fixed_ips
        /\ age' = IF r.raised THEN age ELSE Touch(age, a)
        /\ bridge' = [name |-> "lease", address |-> a, raised |-> r.raised,
                      warned |-> r.warned,
                      late |-> IF late THEN bridge.late + 1 ELSE bridge.late]
        /\ UNCHANGED <<pc, call>>
        /\ ReclaimUnchanged

\* the DHCP bridge calls release_fixed_ip for an address
ReleaseCallback(a) ==
    LET r == release_fixed_ip_call(fixed_ips, a)
    IN  /\ DHCP(topology)
        /\ fixed_ips' = r.fixed_ips
        /\ age' = IF r.fixed_ips = fixed_ips THEN age ELSE Touch(age, a)
        /\ bridge' = [bridge EXCEPT !.name = "release", !.address = a,
                                    !.raised = r.raised, !.warned = r.warned]
        /\ UNCHANGED <<pc, call>>
        /\ ReclaimUnchanged

\* time passes: every row is one tick older
Tick ==
    /\ \E a \in DOMAIN age : age[a] < MaxAge
    /\ age' = [a \in DOMAIN age |-> IF age[a] < MaxAge THEN age[a] + 1 ELSE age[a]]
    /\ UNCHANGED <<fixed_ips, pc, call, bridge>>
    /\ ReclaimUnchanged

\* the periodic task _disassociate_stale_fixed_ips runs on the network's host
DisassociateStaleFixedIps ==
    LET after == disassociate_stale_fixed_ips(topology, fixed_ips, networks, self_host, age)
    IN  /\ fixed_ips' = after
        /\ age' = [a \in DOMAIN age |->
                      IF after[RowOf(after, a)] # fixed_ips[RowOf(fixed_ips, a)]
                      THEN 0 ELSE age[a]]
        /\ UNCHANGED <<pc, call, bridge>>
        /\ ReclaimUnchanged

\* the instances that allocate and deallocate
ReclaimInstances == {1}

NextReclaim ==
    \/ \E i \in ReclaimInstances : ReclaimAssociate(i)
    \/ \E i \in ReclaimInstances : ReclaimAllocated(i)
    \/ \E i \in ReclaimInstances : ReclaimDeallocate(i)
    \/ \E a \in CallbackAddresses : LeaseCallback(a)
    \/ \E a \in CallbackAddresses : ReleaseCallback(a)
    \/ Tick
    \/ DisassociateStaleFixedIps

SpecReclaim == InitReclaim /\ [][NextReclaim]_vars

\* the periodic task keeps running and time keeps passing
SpecReclaimFair ==
    /\ SpecReclaim
    /\ WF_vars(Tick)
    /\ WF_vars(DisassociateStaleFixedIps)

\* the row of an address
RowAt(a) == fixed_ips[RowOf(fixed_ips, a)]

\* a callback step for address a that does not raise and leaves the lease
\* flag set (lease_fixed_ip) or cleared (release_fixed_ip)
C24_Completes ==
    /\ ~bridge'.raised
    /\ bridge'.name = "lease" => fixed_ips'[RowOf(fixed_ips', bridge'.address)].leased
    /\ bridge'.name = "release" => ~fixed_ips'[RowOf(fixed_ips', bridge'.address)].leased

\* C24: lease_fixed_ip and release_fixed_ip never raise, whatever the state of
\* the address (not allocated, not leased, held by no instance): every
\* callback returns without raising and has set (lease) or cleared (release)
\* the lease flag
C24_CallbacksNeverRaise == [][bridge' # bridge => C24_Completes]_vars

\* the same for the addresses that an instance holds, allocated or not,
\* leased or not
C24_HeldNeverRaise ==
    [][bridge' # bridge /\ RowAt(bridge'.address).instance_uuid # 0 => C24_Completes]_vars

\* a callback for an address that no instance holds has raised
C24_Witness ==
    /\ bridge.name \in {"lease", "release"}
    /\ RowAt(bridge.address).instance_uuid = 0
    /\ bridge.raised

\* a callback for an address that an instance holds and that is not
\* allocated has warned and has written the lease flag
C24_WitnessWarned ==
    /\ bridge.name = "lease"
    /\ bridge.warned /\ ~bridge.raised
    /\ RowAt(bridge.address).leased
    /\ ~RowAt(bridge.address).allocated


\* the k-th address of the pool
PoolAddress(k) == IPNetwork(0, AddrBits - 3).first + bottom_reserved_ips(topology) + k

\* an instance holds the address and it is not allocated
Deallocated(a) == RowAt(a).instance_uuid # 0 /\ ~RowAt(a).allocated

RowsWithCidr(nets, cidr) == Cardinality({ i \in 1 .. Len(nets) : nets[i].cidr = cidr })

\* the subnet at which the insert loop of the request in flight stopped
RejectedSubnet == last.carved.subnets[Len(last'.created) + 1]

\* the step of _do_create_networks that inserts the carved subnets: a subnet
\* whose block a network row already has ends the call with 'Network already
\* exists!', that block still has one row, and every fixed-ip row the call
\* added belongs to a network it created before
C26_Step ==
    (last.called /\ last.kind = "create" /\ last.err = "" /\ last.created = <<>>
        /\ last' # last)
    => /\ (\E k \in 1 .. Len(last.carved.subnets) :
               RowsWithCidr(networks, last.carved.subnets[k]) > 0)
              => last'.err = "Network already exists!"
       /\ last'.err = "Network already exists!"
              => /\ RowsWithCidr(networks, RejectedSubnet) = 1
                 /\ RowsWithCidr(networks', RejectedSubnet) = 1
                 /\ Len(networks') = Len(networks) + Len(last'.created)
                 /\ \A k \in Len(fixed_ips) + 1 .. Len(fixed_ips') :
                        \E c \in 1 .. Len(last'.created) :
                            fixed_ips'[k].network_id = last'.created[c]
                 /\ \A k \in 1 .. Len(fixed_ips) : fixed_ips'[k] = fixed_ips[k]

\* C26: when network_create_safe finds a network with the subnet's CIDR,
\* _do_create_networks fails with 'Network already exists!': no second row for
\* that CIDR, no fixed-ip rows for that subnet, and never a silent skip
C26_DuplicateCidrIsFatal ==
    /\ [][C26_Step]_vars
    /\ [](\A i \in 1 .. Len(networks), j \in 1 .. Len(networks) :
              i # j => networks[i].cidr # networks[j].cidr)

\* a create_networks call ended with 'Network already exists!'
C26_Witness ==
    /\ last.called /\ last.kind = "create"
    /\ last.err = "Network already exists!"

\* the same after the call had inserted an earlier subnet
C26_WitnessPartial ==
    /\ C26_Witness
    /\ Len(last.created) > 0


-----------------------------------------------------------------------------
(* The specification of VlanManager.create_networks with its vlan_start and *)
(* vpn_start arguments: calls with a VLAN range that ends below, at and     *)
(* past the limit.  last holds the call and what it created.                *)

NoVlanCall ==
    [called |-> FALSE, cidr |-> NoNet, network_size |-> 0, num_networks |-> 0,
     vlan_start |-> 0, vpn_start |-> 0, err |-> "", created |-> <<>>]

\* the vlan_start arguments tried: none (0: the configured value), and the
\* starts that put the last VLAN id of a call around the limit
VlanStarts == {0, MaxVlanSum - 2, MaxVlanSum - 1, MaxVlanSum}

\* the vpn_start arguments tried: none (0: the configured value), or a port
VpnStarts == {0, 2000}

\* the network_size arguments tried
VlanSizes == {Pow2(2), Pow2(3)}

InitVlan ==
    /\ topology = "Vlan"
    /\ cnt_vpn_clients = 0
    /\ networks = <<>>
    /\ fixed_ips = <<>>
    /\ last = NoVlanCall
    /\ IdleAlloc
    /\ IdleRoute

\* VlanManager.create_networks
VlanCreateNetworks(cidr, network_size, num_networks, vlan_start_arg, vpn_start_arg) ==
    LET a == [cidr |-> cidr, network_size |-> network_size,
              num_networks |-> num_networks, fixed_cidr |-> NoNet,
              multi_host |-> FALSE, vpn |-> TRUE, topo |-> "Vlan", cnt |-> 0,
              vlan_start |-> vlan_start_arg, vpn_start |-> vpn_start_arg]
        r == create_networks(a, networks, fixed_ips)
    IN  /\ ~last.called
        /\ Len(networks) + num_networks <= MaxNetworks
        /\ networks' = r.networks
        /\ fixed_ips' = r.fixed_ips
        /\ last' = [called |-> TRUE, cidr |-> cidr, network_size |-> network_size,
                    num_networks |-> num_networks, vlan_start |-> vlan_start_arg,
                    vpn_start |-> vpn_start_arg, err |-> r.err, created |-> r.created]
        /\ UNCHANGED <<topology, cnt_vpn_clients>>
        /\ UNCHANGED <<allocVars, routeVars>>

\* the caller takes the result (or the error)
VlanReturn ==
    /\ last.called
    /\ last' = NoVlanCall
    /\ UNCHANGED <<topology, cnt_vpn_clients, networks, fixed_ips>>
    /\ UNCHANGED <<allocVars, routeVars>>

NextVlan ==
    \/ \E cidr \in BaseCidrs, network_size \in VlanSizes,
          num_networks \in 1 .. MaxNumNetworks, vlan_start_arg \in VlanStarts,
          vpn_start_arg \in VpnStarts :
           VlanCreateNetworks(cidr, network_size, num_networks, vlan_start_arg,
                              vpn_start_arg)
    \/ VlanReturn

SpecVlan == InitVlan /\ [][NextVlan]_vars

\* the first VLAN id and the first VPN port of the call in last
FirstVlan == IF last.vlan_start = 0 THEN vlan_start ELSE last.vlan_start
FirstVpnPort == IF last.vpn_start = 0 THEN vpn_start ELSE last.vpn_start

\* C27: the network VlanManager.create_networks creates at index i has VLAN
\* id vlan_start + i, bridge 'br<vlan>' and VPN port vpn_start + i; the
\* networks of one call differ pairwise in VLAN id, bridge and VPN port;
\* every VLAN id is below 4095, a call with num_networks + vlan_start > 4094
\* being rejected
C27_VlanNumbering ==
    last.called =>
        /\ \A c \in 1 .. Len(last.created) :
               LET net == NetworkById(last.created[c])
               IN  /\ net.vlan = FirstVlan + (c - 1)
                   /\ net.bridge = <<"b", "r">> \o str_int(net.vlan)
                   /\ net.vpn_public_port = FirstVpnPort + (c - 1)
                   /\ net.vlan < 4095
        /\ \A c, d \in 1 .. Len(last.created) :
               c # d =>
                   /\ NetworkById(last.created[c]).vlan # NetworkById(last.created[d]).vlan
                   /\ NetworkById(last.created[c]).bridge # NetworkById(last.created[d]).bridge
                   /\ NetworkById(last.created[c]).vpn_public_port
                          # NetworkById(last.created[d]).vpn_public_port
        /\ last.num_networks + FirstVlan > 4094
               => last.err # "" /\ last.created = <<>>

\* a call created two networks whose VLAN ids end at the highest id allowed
C27_Witness ==
    /\ last.called /\ last.err = ""
    /\ Len(last.created) = 2
    /\ NetworkById(last.created[2]).vlan = MaxVlanSum - 1

\* a call was rejected for its VLAN range
C27_WitnessRejected ==
    /\ last.called
    /\ last.num_networks + FirstVlan > 4094
    /\ last.err # ""


-----------------------------------------------------------------------------
(* The specification of the 'setup_network' lock of VlanManager: requests   *)
(* of several instances on one host call _setup_network_on_host and         *)
(* _teardown_network_on_host for two networks.  locks holds the pairs of a  *)
(* lock and the request that holds it.                                      *)

\* the requests that run at the same time
NumRequests == 3

Requests == 1 .. NumRequests

\* a plausible slip: each method is synchronized under a name of its own
lock_name_per_method(kind) == kind

\* the name both methods are synchronized under:
\* @lockutils.synchronized('setup_network', 'nova-', external=True)
lock_name(kind) == "setup_network"

\* lockutils.synchronized: the lock of that name is free
lock_free(held, name) == \A l \in held : l[1] # name

\* the calls the body of the method makes
body_calls(kind) ==
    IF kind = "setup"
    THEN {"network_update", "_get_dhcp_ip", "initialize_gateway", "add_vpn", "update_dhcp"}
    ELSE {"_get_dhcp_ip", "update_dhcp"}

NoLockCall == [kind |-> "none", network_id |-> 0]

InitSetupLock ==
    /\ topology = "Vlan"
    /\ cnt_vpn_clients = 0
    /\ networks = create_networks([InitArgs("Vlan", 0) EXCEPT !.cidr = IPNetwork(0, 0),
                                                             !.num_networks = 2],
                                  <<>>, <<>>).networks
    /\ fixed_ips = create_networks([InitArgs("Vlan", 0) EXCEPT !.cidr = IPNetwork(0, 0),
                                                              !.num_networks = 2],
                                   <<>>, <<>>).fixed_ips
    /\ last = NoCall
    /\ virtual_interfaces = <<>>
    /\ vif_seq = 0
    /\ pc = [r \in Requests |-> "idle"]
    /\ call = [r \in Requests |-> NoLockCall]
    /\ effects = [r \in Requests |-> {}]
    /\ dns = {}
    /\ zone_ok = TRUE
    /\ dns_config = NoDnsDomain
    /\ touched = [i \in Instances |-> FALSE]
    /\ deleted = [i \in Instances |-> FALSE]
    /\ self_host = "h1"
    /\ batch = <<>>
    /\ op = "none"
    /\ caller_host = "none"
    /\ loop_host = "none"
    /\ idx = 0
    /\ routed = <<>>
    /\ result = <<>>
    /\ pending = {}
    /\ rpc_pc = "idle"
    /\ dealloc = NoDealloc
    /\ bridge = NoBridge
    /\ age = <<>>
    /\ locks = {}
    /\ CONF = <<>>

\* what the actions of this specification leave alone
LockUnchanged ==
    UNCHANGED <<topology, cnt_vpn_clients, networks, fixed_ips, last, virtual_interfaces,
                vif_seq, dns, zone_ok, dns_config, touched, deleted, self_host, batch,
                op, caller_host, loop_host, idx, routed, result, pending, rpc_pc,
                dealloc, bridge, age, CONF>>

\* allocate_fixed_ip (kind setup) or deallocate_fixed_ip (kind teardown) of
\* an instance reaches the synchronized method and waits for the lock
SetupOrTeardownCall(r, kind, network_id) ==
    /\ pc[r] = "idle"
    /\ pc' = [pc EXCEPT ![r] = "waiting"]
    /\ call' = [call EXCEPT ![r] = [kind |-> kind, network_id |-> network_id]]
    /\ effects' = [effects EXCEPT ![r] = {}]
    /\ UNCHANGED locks
    /\ LockUnchanged

\* the lock is granted: the body of the method starts
LockEnter(r) ==
    /\ pc[r] = "waiting"
    /\ lock_free(locks, lock_name(call[r].kind))
    /\ locks' = locks \cup {<<lock_name(call[r].kind), r>>}
    /\ pc' = [pc EXCEPT ![r] = "critical"]
    /\ UNCHANGED <<call, effects>>
    /\ LockUnchanged

\* the body of _setup_network_on_host or _teardown_network_on_host
LockBody(r) ==
    /\ pc[r] = "critical"
    /\ effects' = [effects EXCEPT ![r] = body_calls(call[r].kind)]
    /\ pc' = [pc EXCEPT ![r] = "leaving"]
    /\ UNCHANGED <<call, locks>>
    /\ LockUnchanged

\* the method returns and the lock is released
LockExit(r) ==
    /\ pc[r] = "leaving"
    /\ locks' = { l \in locks : l[2] # r }
    /\ pc' = [pc EXCEPT ![r] = "idle"]
    /\ call' = [call EXCEPT ![r] = NoLockCall]
    /\ UNCHANGED effects
    /\ LockUnchanged

NextSetupLock ==
    \/ \E r \in Requests, kind \in {"setup", "teardown"}, n \in 1 .. 2 :
           SetupOrTeardownCall(r, kind, networks[n].id)
    \/ \E r \in Requests : LockEnter(r)
    \/ \E r \in Requests : LockBody(r)
    \/ \E r \in Requests : LockExit(r)

SpecSetupLock == InitSetupLock /\ [][NextSetupLock]_vars

\* the body of a method runs to its end, and the lock is granted to every
\* request that keeps waiting for it
SpecSetupLockFair ==
    /\ SpecSetupLock
    /\ \A r \in Requests : WF_vars(LockBody(r)) /\ WF_vars(LockExit(r))
    /\ \A r \in Requests : SF_vars(LockEnter(r))

\* the request is inside _setup_network_on_host or _teardown_network_on_host
InCritical(r) == pc[r] \in {"critical", "leaving"}

-----------------------------------------------------------------------------
(* The specification of _get_dhcp_ip: the managers of two hosts resolve the *)
(* DHCP address of one network for a host, each under the 'get_dhcp' lock   *)
(* of its own process.  A manager asks for its own host (the setup and      *)
(* teardown of the network on the host) or for the host of an instance      *)
(* (the network info of the instance).                                      *)

\* the _get_dhcp_ip calls made
NumDhcpCalls == 3

DhcpCalls == 1 .. NumDhcpCalls

NoDhcpCall == [proc |-> "none", host |-> "none", got |-> NoAddr, claimed |-> FALSE,
               err |-> ""]

\* the lock of a manager process: @lockutils.synchronized('get_dhcp', 'nova-')
\* has no external=True and is held within the process only
get_dhcp_lock(proc) == <<proc, "get_dhcp">>

\* if not network_ref.get('multi_host') or CONF.share_dhcp_address
returns_gateway(network, share_dhcp_address) == ~network.multi_host \/ share_dhcp_address

\* db.fixed_ip_get_by_network_host: the address the host holds in the
\* network, NoAddr for FixedIpNotFoundForNetworkHost
fixed_ip_get_by_network_host(fips, network_id, host) ==
    LET ks == { k \in 1 .. Len(fips) : fips[k].network_id = network_id /\ fips[k].host = host }
    IN  IF ks = {} THEN NoAddr ELSE fips[FirstOf(ks)].address

\* db.fixed_ip_associate_pool(network_id, host=host): the first row of the
\* network that is unreserved and held by no instance and no host goes to the host
fixed_ip_associate_pool_host(fips, network_id, host) ==
    LET ks == { k \in 1 .. Len(fips) : /\ fips[k].network_id = network_id
                                        /\ ~fips[k].reserved
                                        /\ fips[k].instance_uuid = 0
                                        /\ fips[k].host = "none" }
    IN  IF ks = {} THEN DbErr(fips, "NoMoreFixedIps")
        ELSE DbOk([fips EXCEPT ![FirstOf(ks)].host = host], fips[FirstOf(ks)].address)

InitDhcpIp ==
    /\ topology \in {"FlatDHCP", "Vlan"}
    /\ cnt_vpn_clients = 0
    /\ \E multi_host \in BOOLEAN :
           networks = [k \in {1} |->
                          [create_networks(InitArgs(topology, 0), <<>>, <<>>).networks[1]
                              EXCEPT !.multi_host = multi_host]]
    /\ fixed_ips = create_networks(InitArgs(topology, 0), <<>>, <<>>).fixed_ips
    /\ last = NoCall
    /\ virtual_interfaces = <<>>
    /\ vif_seq = 0
    /\ pc = [r \in DhcpCalls |-> "idle"]
    /\ call = [r \in DhcpCalls |-> NoDhcpCall]
    /\ effects = [r \in DhcpCalls |-> {}]
    /\ dns = {}
    /\ zone_ok = TRUE
    /\ dns_config = NoDnsDomain
    /\ touched = [i \in Instances |-> FALSE]
    /\ deleted = [i \in Instances |-> FALSE]
    /\ self_host = "none"
    /\ batch = <<>>
    /\ op = "none"
    /\ caller_host = "none"
    /\ loop_host = "none"
    /\ idx = 0
    /\ routed = <<>>
    /\ result = <<>>
    /\ pending = {}
    /\ rpc_pc = "idle"
    /\ dealloc = NoDealloc
    /\ bridge = NoBridge
    /\ age = <<>>
    /\ locks = {}
    /\ \E share \in BOOLEAN : CONF = [share_dhcp_address |-> share]

\* what the actions of this specification leave alone
DhcpUnchanged ==
    UNCHANGED <<topology, cnt_vpn_clients, networks, last, virtual_interfaces,
                vif_seq, effects, dns, zone_ok, dns_config, touched, deleted, self_host,
                batch, op, caller_host, loop_host, idx, routed, result, pending, rpc_pc,
                dealloc, bridge, age, CONF>>

\* the manager of proc calls _get_dhcp_ip(context, network, host) and waits
\* for its lock; host "none" is the default None
GetDhcpIp(r, proc, host) ==
    /\ pc[r] = "idle"
    /\ pc' = [pc EXCEPT ![r] = "waiting"]
    /\ call' = [call EXCEPT ![r] = [NoDhcpCall EXCEPT !.proc = proc, !.host = host]]
    /\ UNCHANGED <<fixed_ips, locks>>
    /\ DhcpUnchanged

\* the lock of the process is granted
GetDhcpIpEnter(r) ==
    /\ pc[r] = "waiting"
    /\ lock_free(locks, get_dhcp_lock(call[r].proc))
    /\ locks' = locks \cup {<<get_dhcp_lock(call[r].proc), r>>}
    /\ pc' = [pc EXCEPT ![r] = "entered"]
    /\ UNCHANGED <<fixed_ips, call>>
    /\ DhcpUnchanged

\* the gateway is returned, or self.host stands in for a missing host and
\* the address of the host is looked up
GetDhcpIpLookup(r) ==
    LET host == IF call[r].host = "none" THEN call[r].proc ELSE call[r].host
        found == fixed_ip_get_by_network_host(fixed_ips, TheNetwork.id, host)
    IN  /\ pc[r] = "entered"
        /\ IF returns_gateway(TheNetwork, CONF.share_dhcp_address)
           THEN /\ call' = [call EXCEPT ![r].got = TheNetwork.gateway]
                /\ pc' = [pc EXCEPT ![r] = "done"]
           ELSE /\ call' = [call EXCEPT ![r].host = host, ![r].got = found]
                /\ pc' = [pc EXCEPT ![r] = IF found = NoAddr THEN "notfound" ELSE "done"]
        /\ UNCHANGED <<fixed_ips, locks>>
        /\ DhcpUnchanged

\* FixedIpNotFoundForNetworkHost: an address of the pool is claimed for the host
GetDhcpIpAssociate(r) ==
    LET a == fixed_ip_associate_pool_host(fixed_ips, TheNetwork.id, call[r].host)
    IN  /\ pc[r] = "notfound"
        /\ fixed_ips' = a.fixed_ips
        /\ call' = [call EXCEPT ![r].got = a.address, ![r].claimed = a.ok, ![r].err = a.err]
        /\ pc' = [pc EXCEPT ![r] = "done"]
        /\ UNCHANGED locks
        /\ DhcpUnchanged

\* _get_dhcp_ip returns and the lock is released
GetDhcpIpReturn(r) ==
    /\ pc[r] = "done"
    /\ locks' = { l \in locks : l[2] # r }
    /\ pc' = [pc EXCEPT ![r] = "returned"]
    /\ UNCHANGED <<fixed_ips, call>>
    /\ DhcpUnchanged

NextDhcpIp ==
    \/ \E r \in DhcpCalls, proc \in Hosts, host \in Hosts \cup {"none"} : GetDhcpIp(r, proc, host)
    \/ \E r \in DhcpCalls : GetDhcpIpEnter(r)
    \/ \E r \in DhcpCalls : GetDhcpIpLookup(r)
    \/ \E r \in DhcpCalls : GetDhcpIpAssociate(r)
    \/ \E r \in DhcpCalls : GetDhcpIpReturn(r)

SpecDhcpIp == InitDhcpIp /\ [][NextDhcpIp]_vars

\* the host a call resolved the address for
DhcpHostOf(r) == IF call[r].host = "none" THEN call[r].proc ELSE call[r].host

\* C29: for a multi_host network without share_dhcp_address the _get_dhcp_ip
\* calls for one (network, host) claim at most one address of the pool for
\* the host and all return that address; for a network that is not
\* multi_host, or with share_dhcp_address, every call returns the gateway
\* and no address is claimed
C29_OneDhcpAddressPerHost ==
    IF TheNetwork.multi_host /\ ~CONF.share_dhcp_address
    THEN /\ \A h \in Hosts :
                Cardinality({ k \in 1 .. Len(fixed_ips) : fixed_ips[k].host = h }) <= 1
         /\ \A r, q \in DhcpCalls :
                (pc[r] = "returned" /\ pc[q] = "returned" /\ DhcpHostOf(r) = DhcpHostOf(q))
                    => call[r].got = call[q].got
    ELSE /\ \A k \in 1 .. Len(fixed_ips) : fixed_ips[k].host = "none"
         /\ \A r \in DhcpCalls : pc[r] = "returned" => call[r].got = TheNetwork.gateway

\* the calls made within one manager process for one host claim at most one
\* address
C29_OneClaimPerProcess ==
    \A r, q \in DhcpCalls :
        (r # q /\ call[r].proc = call[q].proc /\ call[r].proc # "none"
             /\ pc[r] \notin {"idle", "waiting"} /\ pc[q] \notin {"idle", "waiting"}
             /\ DhcpHostOf(r) = DhcpHostOf(q))
            => ~(call[r].claimed /\ call[q].claimed)

\* two managers have each claimed an address of the pool for the same host
C29_Witness ==
    \E r, q \in DhcpCalls :
        /\ call[r].proc # call[q].proc
        /\ DhcpHostOf(r) = DhcpHostOf(q)
        /\ call[r].claimed /\ call[q].claimed
        /\ call[r].got # call[q].got

\* a call for a network that is not multi_host returned the gateway
C29_WitnessGateway ==
    /\ ~TheNetwork.multi_host
    /\ \E r \in DhcpCalls : pc[r] = "returned" /\ call[r].got = TheNetwork.gateway


\* the associate step of VlanManager.allocate_fixed_ip for instance i
C30_Associates(i) ==
    /\ topology = "Vlan"
    /\ pc[i] = "associate" /\ pc'[i] # "associate"

\* the step in VPN mode: on success the row of vpn_private_address, a
\* reserved row, goes to the instance and is the address of the call, and no
\* unreserved row changes; on failure nothing changes.  In non-VPN mode no
\* reserved row changes hands
C30_Step ==
    \A i \in Instances :
        C30_Associates(i) =>
            IF call[i].vpn
            THEN /\ pc'[i] = "update" =>
                        /\ call'[i].got = NetworkOf(i).vpn_private_address
                        /\ fixed_ips'[RowOf(fixed_ips', call'[i].got)].reserved
                        /\ fixed_ips'[RowOf(fixed_ips', call'[i].got)].instance_uuid = i
                        /\ fixed_ips[RowOf(fixed_ips, call'[i].got)].instance_uuid = 0
                 /\ pc'[i] # "update" => fixed_ips' = fixed_ips
                 /\ \A k \in 1 .. Len(fixed_ips) :
                        ~fixed_ips[k].reserved => fixed_ips'[k] = fixed_ips[k]
            ELSE \A k \in 1 .. Len(fixed_ips) :
                     fixed_ips[k].reserved => fixed_ips'[k] = fixed_ips[k]

\* C30: VlanManager.allocate_fixed_ip with vpn set associates the network's
\* vpn_private_address, a reserved row, to the instance, returns it and
\* claims no address of the unreserved pool; without vpn it never associates
\* a reserved address
C30_VpnAddressReserved ==
    /\ [][C30_Step]_vars
    /\ [](topology = "Vlan" =>
              \A k \in 1 .. Len(fixed_ips) :
                  (fixed_ips[k].reserved /\ fixed_ips[k].instance_uuid # 0)
                      => fixed_ips[k].address = TheNetwork.vpn_private_address)

\* an instance holds the network's vpn_private_address after a call with vpn set
C30_Witness ==
    \E i \in Instances :
        /\ topology = "Vlan" /\ call[i].vpn
        /\ pc[i] = "holding"
        /\ call[i].got = TheNetwork.vpn_private_address
        /\ fixed_ips[RowOf(fixed_ips, call[i].got)].reserved
        /\ fixed_ips[RowOf(fixed_ips, call[i].got)].instance_uuid = i
        /\ fixed_ips[RowOf(fixed_ips, call[i].got)].allocated

\* a call without vpn that asked for a reserved address has failed
C30_WitnessRequestedReserved ==
    \E i \in Instances :
        /\ topology = "Vlan" /\ ~call[i].vpn
        /\ pc[i] = "failed" /\ call[i].err = "FixedIpNotFoundForNetwork"
        /\ call[i].address # NoAddr
        /\ fixed_ips[RowOf(fixed_ips, call[i].address)].reserved


-----------------------------------------------------------------------------
(* The specification of VlanManager._teardown_network_on_host on host h1:   *)
(* one VLAN network, under every setting of the options the method reads;   *)
(* instance 1 runs on h1 and instance 2 on h2, and each may hold an address *)
(* of the network.  last holds the call and the driver calls it made.       *)

\* the host an instance runs on
InstanceHost(i) == IF i = 1 THEN "h1" ELSE "h2"

\* the values of network['vpn_public_address'] tried: CONF.vpn_ip or another
VpnPublicAddresses == {"vpn_ip", "other"}

NoTeardown == [called |-> FALSE, in_use |-> FALSE, dhcp_server |-> NoAddr, calls |-> {}]

\* db.network_in_use_on_host: an instance that runs on the host holds an
\* allocated address of the network
network_in_use_on_host(fips, network_id, host) ==
    \E k \in 1 .. Len(fips) :
        /\ fips[k].network_id = network_id
        /\ fips[k].instance_uuid # 0 /\ fips[k].allocated
        /\ InstanceHost(fips[k].instance_uuid) = host

\* _get_dhcp_ip as one call: the gateway, the address the host holds, or one
\* claimed from the pool
get_dhcp_ip(fips, network, host, share_dhcp_address) ==
    LET found == fixed_ip_get_by_network_host(fips, network.id, host)
    IN  IF returns_gateway(network, share_dhcp_address)
        THEN DbOk(fips, network.gateway)
        ELSE IF found # NoAddr THEN DbOk(fips, found)
        ELSE fixed_ip_associate_pool_host(fips, network.id, host)

\* a plausible slip: the use of the network on the host is not looked at
remove_unused_gateway_always(cfg, network, in_use) ==
    cfg.teardown_unused_network_gateway /\ network.multi_host
        /\ network.vpn_public_address # cfg.vpn_ip

\* CONF.teardown_unused_network_gateway and network['multi_host'] and
\* vpn_address != CONF.vpn_ip and not network_in_use_on_host(...)
remove_unused_gateway(cfg, network, in_use) ==
    cfg.teardown_unused_network_gateway /\ network.multi_host
        /\ network.vpn_public_address # cfg.vpn_ip /\ ~in_use

\* VlanManager._teardown_network_on_host: the rows and the driver calls
teardown_network_on_host(cfg, fips, network, host) ==
    LET d == get_dhcp_ip(fips, network, host, cfg.share_dhcp_address)
        in_use == network_in_use_on_host(d.fixed_ips, network.id, host)
    IN  IF cfg.fake_network
        THEN [fixed_ips |-> fips, calls |-> {}, in_use |-> in_use, dhcp_server |-> NoAddr,
              err |-> ""]
        ELSE IF ~d.ok
        THEN [fixed_ips |-> fips, calls |-> {}, in_use |-> in_use, dhcp_server |-> NoAddr,
              err |-> d.err]
        ELSE IF remove_unused_gateway(cfg, network, in_use)
        THEN [fixed_ips |-> IF ~cfg.share_dhcp_address
                            THEN fixed_ip_update(d.fixed_ips, d.address,
                                                 [allocated |-> FALSE, host |-> "none"])
                            ELSE d.fixed_ips,
              calls |-> {"update_dhcp", "kill_dhcp", "remove_gateway"},
              in_use |-> in_use, dhcp_server |-> d.address, err |-> ""]
        ELSE [fixed_ips |-> d.fixed_ips, calls |-> {"update_dhcp"},
              in_use |-> in_use, dhcp_server |-> d.address, err |-> ""]

\* the network with its vpn_public_address and multi_host columns set
WithVpnAddress(network, vpn_public_address, multi_host) ==
    [f \in DOMAIN network \cup {"vpn_public_address"} |->
        IF f = "vpn_public_address" THEN vpn_public_address
        ELSE IF f = "multi_host" THEN multi_host
        ELSE network[f]]

InitTeardown ==
    /\ topology = "Vlan"
    /\ cnt_vpn_clients = 0
    /\ \E multi_host \in BOOLEAN, vpn_public_address \in VpnPublicAddresses :
           networks = [k \in {1} |->
                          WithVpnAddress(
                              create_networks(InitArgs("Vlan", 0), <<>>, <<>>).networks[1],
                              vpn_public_address, multi_host)]
    /\ fixed_ips = create_networks(InitArgs("Vlan", 0), <<>>, <<>>).fixed_ips
    /\ last = NoTeardown
    /\ virtual_interfaces = <<>>
    /\ vif_seq = 0
    /\ pc = [i \in Instances |-> "idle"]
    /\ call = [i \in Instances |-> NoCallArgs]
    /\ effects = [i \in Instances |-> {}]
    /\ dns = {}
    /\ zone_ok = TRUE
    /\ dns_config = NoDnsDomain
    /\ touched = [i \in Instances |-> FALSE]
    /\ deleted = [i \in Instances |-> FALSE]
    /\ self_host = "h1"
    /\ batch = <<>>
    /\ op = "none"
    /\ caller_host = "none"
    /\ loop_host = "none"
    /\ idx = 0
    /\ routed = <<>>
    /\ result = <<>>
    /\ pending = {}
    /\ rpc_pc = "idle"
    /\ dealloc = NoDealloc
    /\ bridge = NoBridge
    /\ age = <<>>
    /\ locks = {}
    /\ \E unused \in BOOLEAN, share \in BOOLEAN, fake \in BOOLEAN :
           CONF = [teardown_unused_network_gateway |-> unused,
                   share_dhcp_address |-> share, fake_network |-> fake,
                   vpn_ip |-> "vpn_ip"]

\* what the actions of this specification leave alone
TeardownUnchanged ==
    UNCHANGED <<topology, cnt_vpn_clients, networks, virtual_interfaces, vif_seq,
                effects, dns, zone_ok, dns_config, touched, deleted, self_host, batch,
                op, caller_host, loop_host, idx, routed, result, pending, rpc_pc,
                dealloc, bridge, age, locks, CONF>>

\* an instance is given an address of the pool (allocate_fixed_ip)
TeardownAllocate(i) ==
    LET r == fixed_ip_associate_pool(fixed_ips, TheNetwork.id, i)
    IN  /\ pc[i] = "idle" /\ ~last.called
        /\ r.ok
        /\ fixed_ips' = fixed_ip_update(r.fixed_ips, r.address, alloc_values(0))
        /\ call' = [call EXCEPT ![i] = [NoCallArgs EXCEPT !.network_id = TheNetwork.id,
                                                          !.got = r.address]]
        /\ pc' = [pc EXCEPT ![i] = "holding"]
        /\ UNCHANGED last
        /\ TeardownUnchanged

\* the address of an instance is deallocated (deallocate_fixed_ip, up to the
\* teardown)
TeardownDeallocate(i) ==
    /\ pc[i] = "holding" /\ ~last.called
    /\ fixed_ips' = fixed_ip_update(fixed_ips, call[i].got, dealloc_values)
    /\ call' = [call EXCEPT ![i] = NoCallArgs]
    /\ pc' = [pc EXCEPT ![i] = "released"]
    /\ UNCHANGED last
    /\ TeardownUnchanged

\* the manager of h1 resolves its DHCP address (_setup_network_on_host)
TeardownGetDhcpIp ==
    LET d == get_dhcp_ip(fixed_ips, TheNetwork, self_host, CONF.share_dhcp_address)
    IN  /\ ~last.called
        /\ d.ok
        /\ fixed_ips' = d.fixed_ips
        /\ UNCHANGED <<last, pc, call>>
        /\ TeardownUnchanged

\* VlanManager._teardown_network_on_host runs on h1
TeardownNetworkOnHost ==
    LET r == teardown_network_on_host(CONF, fixed_ips, TheNetwork, self_host)
    IN  /\ ~last.called
        /\ fixed_ips' = r.fixed_ips
        /\ last' = [called |-> TRUE, in_use |-> r.in_use, dhcp_server |-> r.dhcp_server,
                    calls |-> r.calls]
        /\ UNCHANGED <<pc, call>>
        /\ TeardownUnchanged

\* the method has returned
TeardownReturn ==
    /\ last.called
    /\ last' = NoTeardown
    /\ UNCHANGED <<fixed_ips, pc, call>>
    /\ TeardownUnchanged

NextTeardown ==
    \/ \E i \in Instances : TeardownAllocate(i)
    \/ \E i \in Instances : TeardownDeallocate(i)
    \/ TeardownGetDhcpIp
    \/ TeardownNetworkOnHost
    \/ TeardownReturn

SpecTeardown == InitTeardown /\ [][NextTeardown]_vars

\* the rows of the network that a host holds
HostRows(fips, host) == { k \in 1 .. Len(fips) : fips[k].host = host }

\* the four conditions of the statement, in the state before the call
C31_Unused ==
    /\ CONF.teardown_unused_network_gateway
    /\ TheNetwork.multi_host
    /\ TheNetwork.vpn_public_address # CONF.vpn_ip
    /\ ~\E k \in 1 .. Len(fixed_ips) :
           /\ fixed_ips[k].instance_uuid # 0 /\ fixed_ips[k].allocated
           /\ InstanceHost(fixed_ips[k].instance_uuid) = self_host

\* a call of _teardown_network_on_host: kill_dhcp and remove_gateway are
\* called only when the four conditions hold; the rows of the host lose
\* their host only then and only without share_dhcp_address; no row of an
\* instance changes
C31_Step ==
    (~last.called /\ last'.called) =>
        /\ ("remove_gateway" \in last'.calls \/ "kill_dhcp" \in last'.calls) => C31_Unused
        /\ (HostRows(fixed_ips', self_host) = {} /\ last'.dhcp_server # NoAddr
                /\ last'.dhcp_server # TheNetwork.gateway)
               => (C31_Unused /\ ~CONF.share_dhcp_address)
        /\ (C31_Unused /\ ~CONF.fake_network /\ last'.dhcp_server # NoAddr)
               => {"remove_gateway", "kill_dhcp"} \subseteq last'.calls
        /\ ~C31_Unused => HostRows(fixed_ips, self_host) \subseteq HostRows(fixed_ips', self_host)
        /\ \A k \in 1 .. Len(fixed_ips) :
               fixed_ips[k].instance_uuid # 0 => fixed_ips'[k] = fixed_ips[k]

\* C31: VlanManager._teardown_network_on_host removes the gateway and kills
\* DHCP only when teardown_unused_network_gateway is set, the network is
\* multi_host, its VPN public address is not CONF.vpn_ip and the network is
\* not in use on the host; the host's DHCP address is freed only then and
\* only without share_dhcp_address; a network in use on the host keeps its
\* gateway and its DHCP address
C31_GatewayRemovedOnlyWhenUnused == [][C31_Step]_vars

\* a teardown removed the gateway and freed the DHCP address of the host
C31_Witness ==
    /\ last.called
    /\ "remove_gateway" \in last.calls /\ "kill_dhcp" \in last.calls
    /\ ~CONF.share_dhcp_address
    /\ last.dhcp_server # NoAddr
    /\ fixed_ips[RowOf(fixed_ips, last.dhcp_server)].host = "none"

\* a teardown of a network in use on the host left the gateway in place
C31_WitnessInUse ==
    /\ last.called /\ last.in_use
    /\ CONF.teardown_unused_network_gateway /\ TheNetwork.multi_host
    /\ TheNetwork.vpn_public_address # CONF.vpn_ip
    /\ last.calls = {"update_dhcp"}


-----------------------------------------------------------------------------
(* The specification of allocate_for_instance and deallocate_for_instance:  *)
(* each instance is given a VIF row and an address on each of two networks  *)
(* that the local host serves, and gives them back; the requests of the     *)
(* instances interleave.  batch[i] holds what is left of the loop instance  *)
(* i is in and result[i] the addresses its allocation claimed.              *)

\* the networks of a request, as indexes of the networks table
RequestNetworks == <<1, 2>>

\* the address requested_networks asks for on the second network: none, or
\* the first address of its pool
RequestedOnSecond ==
    {NoAddr, networks[2].cidr.first + bottom_reserved_ips("Flat")}

\* a plausible slip: _allocate_fixed_ips runs whether _allocate_mac_addresses
\* raised or not
after_mac_addresses_ignored(ok) == "fixed_ips"

\* allocate_for_instance: _allocate_fixed_ips is called after
\* _allocate_mac_addresses returned; its exception leaves the method
after_mac_addresses(ok) == IF ok THEN "fixed_ips" ELSE "mac_failed"

\* a plausible slip: a failed allocation gives back the rows the instance holds
allocate_fixed_ip_rollback(topo, fips, vifs, network, instance_uuid, address) ==
    LET r == allocate_associate(topo, fips, network, instance_uuid, address, FALSE)
        vif == virtual_interface_get_by_instance_and_network(vifs, instance_uuid, network.id)
    IN  IF ~r.ok \/ vif = 0
        THEN [ok |-> FALSE, err |-> IF r.ok THEN "TypeError" ELSE r.err, address |-> NoAddr,
              fixed_ips |-> [k \in 1 .. Len(fips) |->
                                IF fips[k].instance_uuid = instance_uuid
                                THEN [fips[k] EXCEPT !.instance_uuid = 0, !.allocated = FALSE,
                                                     !.virtual_interface_id = 0]
                                ELSE fips[k]]]
        ELSE DbOk(fixed_ip_update(r.fixed_ips, r.address, alloc_values(vif)), r.address)

\* NetworkManager.allocate_fixed_ip: the row is claimed, the VIF row of the
\* instance and the network looked up and the row updated; vif['id'] of a
\* missing row raises after the claim
allocate_fixed_ip(topo, fips, vifs, network, instance_uuid, address) ==
    LET r == allocate_associate(topo, fips, network, instance_uuid, address, FALSE)
        vif == virtual_interface_get_by_instance_and_network(vifs, instance_uuid, network.id)
    IN  IF ~r.ok THEN [r EXCEPT !.address = NoAddr]
        ELSE IF vif = 0
        THEN [ok |-> FALSE, err |-> "TypeError", address |-> r.address,
              fixed_ips |-> r.fixed_ips]
        ELSE DbOk(fixed_ip_update(r.fixed_ips, r.address, alloc_values(vif)), r.address)

\* db.fixed_ip_get_by_instance: the addresses of the rows of an instance
RECURSIVE fixed_ip_get_by_instance(_, _, _)
fixed_ip_get_by_instance(fips, instance_uuid, k) ==
    IF k > Len(fips) THEN <<>>
    ELSE (IF fips[k].instance_uuid = instance_uuid THEN <<fips[k].address>> ELSE <<>>)
             \o fixed_ip_get_by_instance(fips, instance_uuid, k + 1)

\* deallocate_fixed_ip of the manager in use, run on the local host: the row
\* is updated, the network torn down on the host (teardown_ok: whether the
\* driver calls of a DHCP manager return), and FlatManager disassociates the
\* row when the method of the superclass has returned
deallocate_fixed_ip(topo, fips, address, teardown_ok) ==
    LET updated == fixed_ip_update(fips, address, dealloc_values)
    IN  IF DHCP(topo) /\ ~teardown_ok
        THEN [ok |-> FALSE, err |-> "ProcessExecutionError", address |-> address,
              fixed_ips |-> updated]
        ELSE DbOk(IF topo = "Flat" THEN fixed_ip_disassociate(updated, address)
                  ELSE updated, address)

InitInstance ==
    /\ topology \in {"Flat", "FlatDHCP"}
    /\ cnt_vpn_clients = 0
    /\ networks = create_networks(InitVifArgs, <<>>, <<>>).networks
    /\ fixed_ips = create_networks(InitVifArgs, <<>>, <<>>).fixed_ips
    /\ last = NoCall
    /\ IdleAlloc
    /\ self_host = "h1"
    /\ batch = [i \in Instances |-> <<>>]
    /\ op = "none"
    /\ caller_host = "none"
    /\ loop_host = "none"
    /\ idx = 0
    /\ routed = <<>>
    /\ result = [i \in Instances |-> {}]
    /\ pending = {}
    /\ rpc_pc = "idle"
    /\ dealloc = NoDealloc
    /\ bridge = NoBridge
    /\ age = <<>>
    /\ locks = <<>>
    /\ CONF = <<>>

\* what the actions of this specification leave alone
InstanceUnchanged ==
    UNCHANGED <<topology, cnt_vpn_clients, networks, last, dns, zone_ok, dns_config,
                touched, deleted, self_host, op, caller_host, loop_host, idx, routed,
                pending, rpc_pc, dealloc, bridge, age, locks, CONF>>

\* allocate_for_instance is called for an instance
AllocateForInstance(i, address) ==
    /\ pc[i] = "idle"
    /\ pc' = [pc EXCEPT ![i] = "macs"]
    /\ batch' = [batch EXCEPT ![i] = RequestNetworks]
    /\ call' = [call EXCEPT ![i] = [NoCallArgs EXCEPT !.address = address]]
    /\ result' = [result EXCEPT ![i] = {}]
    /\ UNCHANGED <<fixed_ips, virtual_interfaces, vif_seq, effects>>
    /\ InstanceUnchanged

\* one round of the loop of _allocate_mac_addresses
InstanceAddVirtualInterface(i, macs) ==
    LET network == networks[Head(batch[i])]
        r == add_virtual_interface(virtual_interfaces, vif_seq, i, network.id, macs)
        next == IF ~r.ok THEN after_mac_addresses(FALSE)
                ELSE IF Tail(batch[i]) # <<>> THEN "macs"
                ELSE after_mac_addresses(TRUE)
    IN  /\ pc[i] = "macs"
        /\ virtual_interfaces' = r.vifs
        /\ vif_seq' = r.seq
        /\ pc' = [pc EXCEPT ![i] = next]
        /\ batch' = [batch EXCEPT ![i] = IF next = "macs" THEN Tail(@)
                                         ELSE IF next = "fixed_ips" THEN RequestNetworks
                                         ELSE <<>>]
        /\ call' = [call EXCEPT ![i].err =
                      IF r.ok THEN "" ELSE "VirtualInterfaceMacAddressException"]
        /\ effects' = [effects EXCEPT ![i] = IF r.ok THEN @ ELSE @ \cup {"mac_failed"}]
        /\ UNCHANGED <<fixed_ips, result>>
        /\ InstanceUnchanged

\* one round of the loop of _allocate_fixed_ips: allocate_fixed_ip on the
\* local host, with the address requested for the network
InstanceAllocateFixedIp(i) ==
    LET n == Head(batch[i])
        address == IF n = 2 THEN call[i].address ELSE NoAddr
        r == allocate_fixed_ip(topology, fixed_ips, virtual_interfaces, networks[n], i,
                               address)
    IN  /\ pc[i] = "fixed_ips"
        /\ fixed_ips' = r.fixed_ips
        /\ result' = [result EXCEPT ![i] = IF r.address = NoAddr THEN @
                                           ELSE @ \cup {r.address}]
        /\ pc' = [pc EXCEPT ![i] = IF ~r.ok THEN "alloc_failed"
                                   ELSE IF Tail(batch[i]) # <<>> THEN "fixed_ips"
                                   ELSE "allocated"]
        /\ batch' = [batch EXCEPT ![i] = IF r.ok THEN Tail(@) ELSE <<>>]
        /\ call' = [call EXCEPT ![i].err = r.err, ![i].network_id = networks[n].id]
        /\ UNCHANGED <<virtual_interfaces, vif_seq, effects>>
        /\ InstanceUnchanged

\* deallocate_for_instance is called for an instance: its rows are read
DeallocateForInstance(i) ==
    /\ pc[i] \in {"allocated", "alloc_failed", "dealloc_failed"}
    /\ pc' = [pc EXCEPT ![i] = "dealloc"]
    /\ batch' = [batch EXCEPT ![i] = fixed_ip_get_by_instance(fixed_ips, i, 1)]
    /\ call' = [call EXCEPT ![i].err = ""]
    /\ UNCHANGED <<fixed_ips, virtual_interfaces, vif_seq, effects, result>>
    /\ InstanceUnchanged

\* one round of the loop of deallocate_for_instance
InstanceDeallocateFixedIp(i, teardown_ok) ==
    LET r == deallocate_fixed_ip(topology, fixed_ips, Head(batch[i]), teardown_ok)
    IN  /\ pc[i] = "dealloc" /\ batch[i] # <<>>
        /\ fixed_ips' = r.fixed_ips
        /\ pc' = [pc EXCEPT ![i] = IF r.ok THEN "dealloc" ELSE "dealloc_failed"]
        /\ batch' = [batch EXCEPT ![i] = Tail(@)]
        /\ call' = [call EXCEPT ![i].err = r.err]
        /\ effects' = [effects EXCEPT ![i] = IF r.ok THEN @ ELSE @ \cup {"teardown_failed"}]
        /\ UNCHANGED <<virtual_interfaces, vif_seq, result>>
        /\ InstanceUnchanged

\* the end of deallocate_for_instance: virtual_interface_delete_by_instance
InstanceDeleteVirtualInterfaces(i) ==
    /\ pc[i] = "dealloc" /\ batch[i] = <<>>
    /\ virtual_interfaces' = virtual_interface_delete_by_instance(virtual_interfaces, i)
    /\ pc' = [pc EXCEPT ![i] = "deallocated"]
    /\ UNCHANGED <<fixed_ips, vif_seq, effects, result, batch, call>>
    /\ InstanceUnchanged

NextInstance ==
    \/ \E i \in Instances, address \in RequestedOnSecond : AllocateForInstance(i, address)
    \/ \E i \in Instances, macs \in [1 .. create_unique_mac_address_attempts -> BatchMacs] :
           InstanceAddVirtualInterface(i, macs)
    \/ \E i \in Instances : InstanceAllocateFixedIp(i)
    \/ \E i \in Instances : DeallocateForInstance(i)
    \/ \E i \in Instances, teardown_ok \in BOOLEAN : InstanceDeallocateFixedIp(i, teardown_ok)
    \/ \E i \in Instances : InstanceDeleteVirtualInterfaces(i)

SpecInstance == InitInstance /\ [][NextInstance]_vars

\* the VIF rows of an instance on a network
VifIdsOf(vifs, i, network_id) ==
    { vifs[k].id : k \in { j \in 1 .. Len(vifs) :
                             vifs[j].instance_uuid = i /\ vifs[j].network_id = network_id } }

\* the rows of an instance
RowsOfInstance(fips, i) == { k \in 1 .. Len(fips) : fips[k].instance_uuid = i }

\* a step of an allocation request: a row that becomes allocated is linked to
\* a VIF row of its instance and network that existed before the step
C32_Step ==
    \A i \in Instances :
        /\ \A k \in 1 .. Len(fixed_ips) :
               (pc[i] = "fixed_ips" /\ ~fixed_ips[k].allocated /\ fixed_ips'[k].allocated
                    /\ fixed_ips'[k].instance_uuid = i) =>
                   fixed_ips'[k].virtual_interface_id
                       \in VifIdsOf(virtual_interfaces, i, fixed_ips[k].network_id)
        /\ (pc[i] = "macs" /\ pc'[i] = "fixed_ips") =>
               \A n \in 1 .. Len(RequestNetworks) :
                   VifIdsOf(virtual_interfaces', i, networks[RequestNetworks[n]].id) # {}
        /\ (pc[i] = "macs" /\ pc'[i] # "fixed_ips") =>
               (result'[i] = {} /\ RowsOfInstance(fixed_ips', i) = {})
        /\ (pc[i] = "mac_failed") => pc'[i] = "mac_failed"

\* C32: allocate_for_instance creates the VIF rows of all the networks of the
\* instance before the first allocate_fixed_ip, so that a row that
\* allocate_fixed_ip links to a VIF finds the VIF row of the instance and the
\* network in place; a request whose MAC allocation fails claims no address
C32_VifsBeforeFixedIps == [][C32_Step]_vars

\* an instance holds an address on each network, each linked to the VIF row
\* of the instance on that network
C32_Witness ==
    \E i \in Instances :
        /\ pc[i] = "allocated"
        /\ \A n \in 1 .. Len(RequestNetworks) :
               \E k \in RowsOfInstance(fixed_ips, i) :
                   /\ fixed_ips[k].network_id = networks[n].id /\ fixed_ips[k].allocated
                   /\ fixed_ips[k].virtual_interface_id
                          \in VifIdsOf(virtual_interfaces, i, networks[n].id)

\* a request failed in MAC allocation and holds no address
C32_WitnessMacFailed ==
    \E i \in Instances :
        /\ pc[i] = "mac_failed" /\ "mac_failed" \in effects[i]
        /\ RowsOfInstance(fixed_ips, i) = {}
        /\ \E j \in Instances : pc[j] = "allocated"


\* the rows of the addresses an instance was given that no other instance has
\* claimed since
BelongedTo(fips, i) ==
    { k \in 1 .. Len(fips) : fips[k].address \in result[i] /\ fips[k].instance_uuid \in {0, i} }

\* the VIF rows of an instance
VifsOfInstance(vifs, i) == { k \in 1 .. Len(vifs) : vifs[k].instance_uuid = i }

\* the step that ends deallocate_for_instance leaves no row of the instance
\* allocated or linked and no VIF row of the instance; a step of the
\* deallocation that deletes VIF rows finds no row of the instance allocated
C33_Step ==
    \A i \in Instances :
        /\ (pc[i] = "dealloc" /\ pc'[i] = "deallocated") =>
               /\ \A k \in BelongedTo(fixed_ips', i) \cup RowsOfInstance(fixed_ips, i) :
                      /\ ~fixed_ips'[k].allocated
                      /\ fixed_ips'[k].virtual_interface_id = 0
               /\ VifsOfInstance(virtual_interfaces', i) = {}
        /\ (pc[i] = "dealloc"
                /\ Cardinality(VifsOfInstance(virtual_interfaces', i))
                       < Cardinality(VifsOfInstance(virtual_interfaces, i))) =>
               /\ pc'[i] = "deallocated"
               /\ \A k \in RowsOfInstance(fixed_ips, i) : ~fixed_ips[k].allocated

\* C33: when deallocate_for_instance has completed, every fixed IP that
\* belonged to the instance has allocated = FALSE and no VIF link and no VIF
\* row of the instance remains; the VIF rows are deleted only after all the
\* fixed IPs of the instance have been deallocated
C33_DeallocateForInstance == [][C33_Step]_vars

\* an instance that held an address on each network was deallocated on a DHCP
\* manager: its rows are still associated, not allocated and not linked
C33_Witness ==
    \E i \in Instances :
        /\ pc[i] = "deallocated" /\ DHCP(topology)
        /\ Cardinality(result[i]) = Len(RequestNetworks)
        /\ Cardinality(RowsOfInstance(fixed_ips, i)) = Len(RequestNetworks)
        /\ \A k \in RowsOfInstance(fixed_ips, i) :
               ~fixed_ips[k].allocated /\ fixed_ips[k].virtual_interface_id = 0
        /\ VifsOfInstance(virtual_interfaces, i) = {}


\* C34: a failure to deallocate one fixed IP (or to tear down its network
\* devices) during deallocate_for_instance does not block the rest of the
\* cleanup: the remaining fixed IPs of the instance are deallocated all the
\* same and its VIF rows deleted
C34_TeardownFailureAdvisory ==
    \A i \in Instances :
        pc[i] = "dealloc_failed" =>
            /\ \A k \in RowsOfInstance(fixed_ips, i) : ~fixed_ips[k].allocated
            /\ VifsOfInstance(virtual_interfaces, i) = {}

\* the teardown of the first address of an instance failed and the call left
\* the second address allocated and the VIF rows in place
C34_Witness ==
    \E i \in Instances :
        /\ pc[i] = "dealloc_failed" /\ "teardown_failed" \in effects[i]
        /\ call[i].err = "ProcessExecutionError"
        /\ \E k \in RowsOfInstance(fixed_ips, i) : ~fixed_ips[k].allocated
        /\ \E k \in RowsOfInstance(fixed_ips, i) :
               fixed_ips[k].allocated /\ fixed_ips[k].virtual_interface_id # 0
        /\ Cardinality(VifsOfInstance(virtual_interfaces, i)) = Len(RequestNetworks)


\* a failure of allocate_fixed_ip leaves the VIF rows and the addresses the
\* request allocated before; the only step of an allocation that removes VIF
\* rows of the instance is the exhaustion of the MAC attempts, which removes
\* them all
C39_Step ==
    \A i \in Instances :
        /\ (pc[i] = "fixed_ips" /\ pc'[i] = "alloc_failed") =>
               /\ virtual_interfaces' = virtual_interfaces
               /\ Cardinality(VifsOfInstance(virtual_interfaces', i)) = Len(RequestNetworks)
               /\ \A k \in 1 .. Len(fixed_ips) :
                      fixed_ips[k].address \in result[i] =>
                          /\ fixed_ips'[k] = fixed_ips[k]
                          /\ fixed_ips'[k].allocated /\ fixed_ips'[k].instance_uuid = i
        /\ (pc[i] \in {"macs", "fixed_ips"}
                /\ Cardinality(VifsOfInstance(virtual_interfaces', i))
                       < Cardinality(VifsOfInstance(virtual_interfaces, i))) =>
               (pc[i] = "macs" /\ pc'[i] = "mac_failed")
        /\ (pc[i] = "macs" /\ pc'[i] = "mac_failed") =>
               VifsOfInstance(virtual_interfaces', i) = {}

\* C39: allocate_for_instance does not roll back when a fixed-IP allocation
\* fails: the VIF rows of the request and the addresses already allocated
\* for earlier networks stay; only the exhaustion of the MAC attempts removes
\* VIF rows
C39_NoRollbackOnFixedIpFailure == [][C39_Step]_vars

\* the allocation of the second network failed on a requested address in
\* use; the address of the first network and both VIF rows are in place
C39_Witness ==
    \E i \in Instances :
        /\ pc[i] = "alloc_failed" /\ call[i].err = "FixedIpAlreadyInUse"
        /\ Cardinality(result[i]) = 1
        /\ \E k \in RowsOfInstance(fixed_ips, i) :
               /\ fixed_ips[k].address \in result[i] /\ fixed_ips[k].allocated
               /\ fixed_ips[k].network_id = networks[1].id
        /\ Cardinality(VifsOfInstance(virtual_interfaces, i)) = Len(RequestNetworks)


\* C35: in every reachable state, under any interleaving of allocate_fixed_ip,
\* deallocate_fixed_ip, lease_fixed_ip, release_fixed_ip and the periodic
\* reclamation of stale addresses, a row with allocated = TRUE is associated
\* with an instance: no interleaving disassociates an address that an
\* instance holds allocated
C35_AllocatedIsAssociated ==
    \A k \in 1 .. Len(fixed_ips) : fixed_ips[k].allocated => fixed_ips[k].instance_uuid # 0

\* a release callback or the reclamation ran between the two writes of
\* allocate_fixed_ip: the instance holds, allocated, a row that is associated
\* with no instance
C35_Witness ==
    \E i \in ReclaimInstances :
        /\ pc[i] = "holding"
        /\ RowAt(call[i].got).allocated
        /\ RowAt(call[i].got).instance_uuid = 0


\* a step of the allocation handlers and the DHCP callbacks, on a DHCP
\* manager: the update of deallocate_fixed_ip leaves the lease flag and the
\* instance of the row as they were, and a leased row leaves its instance
\* only by a release that finds it not allocated
C36_Step ==
    DHCP(topology) =>
        \A k \in 1 .. Len(fixed_ips) :
            /\ \A p \in Instances :
                   (/\ pc[p] \in {"holding", "dealloc_teardown"} /\ pc'[p] # pc[p]
                    /\ call[p].got = fixed_ips[k].address) =>
                       /\ fixed_ips'[k].leased = fixed_ips[k].leased
                       /\ fixed_ips'[k].instance_uuid = fixed_ips[k].instance_uuid
            /\ (/\ fixed_ips[k].instance_uuid # 0 /\ fixed_ips[k].leased
                /\ fixed_ips'[k].instance_uuid # fixed_ips[k].instance_uuid) =>
                   /\ fixed_ips'[k].instance_uuid = 0
                   /\ ~fixed_ips'[k].leased
                   /\ ~fixed_ips[k].allocated
                   /\ UNCHANGED pc

\* C36: under FlatDHCP and VLAN deallocate_fixed_ip leaves the leased flag
\* and the instance association untouched: a leased address stays leased
\* and associated after the deallocation and only release_fixed_ip returns it
\* to the pool, so that no other instance can claim it in between
C36_DeallocateKeepsLease == [][C36_Step]_vars

\* an instance has deallocated a leased address, which is still leased and
\* associated with it, and the request of another instance for it has failed
C36_Witness ==
    \E p \in Instances, q \in Instances :
        /\ p # q /\ DHCP(topology)
        /\ pc[p] = "dealloc_done"
        /\ GotRow(p).instance_uuid = p /\ GotRow(p).leased /\ ~GotRow(p).allocated
        /\ pc[q] = "failed" /\ call[q].address = call[p].got
        /\ call[q].err = "FixedIpAlreadyInUse"


\* a step under FlatManager: the deallocation leaves its row disassociated,
\* not allocated and without VIF link, a row of the pool again; and the rows
\* are written by the allocation handlers only, never by the periodic task
C37_Step ==
    topology = "Flat" =>
        /\ \A i \in ReclaimInstances :
               (pc[i] = "holding" /\ pc'[i] = "idle") =>
                   LET row == fixed_ips'[RowOf(fixed_ips', call[i].got)]
                   IN  /\ fixed_ips[RowOf(fixed_ips, call[i].got)].instance_uuid = i
                       /\ row.instance_uuid = 0 /\ ~row.allocated
                       /\ row.virtual_interface_id = 0
                       /\ ~row.reserved /\ row.host = "none"
        /\ fixed_ips' # fixed_ips => pc' # pc

\* C37: under FlatManager deallocate_fixed_ip disassociates the address right
\* after clearing allocated and the VIF link, without waiting for a DHCP
\* release, and the reclamation of stale addresses does nothing
\* (timeout_fixed_ips is False): after the deallocation the address can be
\* claimed by another instance at once
C37_FlatDeallocateDisassociates == [][C37_Step]_vars

\* a Flat address was deallocated just now and is a free row of the pool
C37_Witness ==
    \E a \in CallbackAddresses :
        /\ topology = "Flat"
        /\ age[a] = 0
        /\ RowAt(a).instance_uuid = 0 /\ ~RowAt(a).allocated /\ ~RowAt(a).reserved
        /\ \A i \in ReclaimInstances : pc[i] = "idle"


\* the host that holds the authority for the call that has just entered
C38_Authoritative == IF TheNetwork.multi_host THEN dealloc'.host ELSE TheNetwork.host

\* the step in which RPCAllocateFixedIP.deallocate_fixed_ip routes a call: it
\* runs here for a local authoritative host, here without teardown for a
\* multi_host network whose host has no live service, and on the
\* authoritative host otherwise; the routing writes no row
C38_Step ==
    (DHCP(topology) /\ ~dealloc.called /\ dealloc'.called) =>
        /\ fixed_ips' = fixed_ips
        /\ dealloc'.at \in {self_host, C38_Authoritative}
        /\ C38_Authoritative = self_host => dealloc'.at = self_host
        /\ (C38_Authoritative # self_host /\ TheNetwork.multi_host /\ ~dealloc'.service_up) =>
               (dealloc'.at = self_host /\ ~dealloc'.teardown)
        /\ (C38_Authoritative # self_host
                /\ ~(TheNetwork.multi_host /\ ~dealloc'.service_up)) =>
               dealloc'.at = C38_Authoritative

\* C38: RPCAllocateFixedIP.deallocate_fixed_ip does exactly one of three
\* things per call: it deallocates locally when the authoritative host is the
\* local one; for a multi_host network whose authoritative host has no live
\* network service it deallocates locally with teardown = FALSE; otherwise it
\* forwards the call to the authoritative host and writes no row itself
C38_OneOfThreeRoutes == [][C38_Step]_vars

\* a call for a multi_host network whose host has no live service ran on the
\* local host without teardown
C38_Witness ==
    /\ DHCP(topology) /\ dealloc.called /\ dealloc.pc = "returned"
    /\ TheNetwork.multi_host /\ dealloc.host # self_host /\ ~dealloc.service_up
    /\ dealloc.at = self_host /\ ~dealloc.teardown
    /\ ~fixed_ips[RowOf(fixed_ips, dealloc.address)].allocated
    /\ ~Logged("teardown")

\* a call was forwarded to the host of the network
C38_WitnessForwarded ==
    /\ DHCP(topology) /\ dealloc.called
    /\ ~TheNetwork.multi_host /\ TheNetwork.host # self_host
    /\ dealloc.at = TheNetwork.host


\* an address lies in a block
C40_Inside(cidr, address) == cidr.first <= address /\ address <= NetLast(cidr)

\* the network a fixed-IP row belongs to
C40_NetworkOfRow(k) ==
    networks[FirstOf({ n \in 1 .. Len(networks) : networks[n].id = fixed_ips[k].network_id })]

\* C40: every fixed-IP row that create_networks made for a network has an
\* address inside the v4 cidr of that network, and no address has fixed-IP
\* rows in two different networks, whatever num_networks and the optional
\* fixed_cidr argument were
C40_RowsInsideOwnCidr ==
    /\ \A k \in 1 .. Len(fixed_ips) :
           C40_Inside(C40_NetworkOfRow(k).cidr, fixed_ips[k].address)
    /\ \A k \in 1 .. Len(fixed_ips), j \in 1 .. Len(fixed_ips) :
           fixed_ips[k].address = fixed_ips[j].address =>
               fixed_ips[k].network_id = fixed_ips[j].network_id

\* one call with fixed_cidr created two networks, and the rows of both are
\* the addresses of fixed_cidr: the same addresses twice, those of the second
\* network outside its cidr
C40_Witness ==
    /\ last.called /\ last.err = "" /\ last.fixed_cidr # NoNet
    /\ last.num_networks = 2 /\ Len(networks) = 2
    /\ \E k \in 1 .. Len(fixed_ips), j \in 1 .. Len(fixed_ips) :
           /\ fixed_ips[k].address = fixed_ips[j].address
           /\ fixed_ips[k].network_id # fixed_ips[j].network_id
    /\ \E k \in 1 .. Len(fixed_ips) :
           /\ fixed_ips[k].network_id = networks[2].id
           /\ ~C40_Inside(networks[2].cidr, fixed_ips[k].address)

=============================================================================
